---------------------------- MODULE Spec2Model ----------------------------
(***************************************************************************)
(* A model of the manga storage API: the path-prefix group codec, the      *)
(* image read proxy, the multi-remote router with its health trackers and  *)
(* round-robin cursors, the active upload group policy, the bulk ingest    *)
(* with its progress store, the environment of the rclone processes, the   *)
(* serve daemons with their registry, their lock and their ports, the      *)
(* resume requests, and the expiry of the stored entries.                  *)
(*                                                                         *)
(* Paths are modelled as sequences of one-character strings, so that       *)
(* prefix matching, stripping and formatting are computed character by     *)
(* character as the Python code computes them.                             *)
(***************************************************************************)
EXTENDS Integers, Sequences, FiniteSets, TLC

VARIABLES
    \* path codec: the input of the call sequence and what each call returned
    inPath, inGroup, stage, marked, remarked, decodedPath, decodedGroup,
    g2once, g2twice, stripSite, stripped

codecVars == <<inPath, inGroup, stage, marked, remarked, decodedPath,
               decodedGroup, g2once, g2twice, stripSite, stripped>>

VARIABLES
    \* MultiRemoteService: per group the RemoteStatus of every remote, the
    \* round-robin index, the cached daemon URL list and its time stamp
    status, rr_index, daemon_urls_cache, daemon_urls_time,
    \* which remotes have a serve daemon that is running with a URL
    serve_running,
    \* holder of MultiRemoteService.lock, the clock, the number of events
    \* of the environment and the number of calls started
    lock, now, events, calls,
    \* worker threads: position and locals of the call each one is in
    th,
    \* what the calls returned: per group the log of get_next_remote results
    \* and of the daemon URLs given to reads; the last health snapshot
    remoteLog, readLog, snapshot

routerVars == <<status, rr_index, daemon_urls_cache, daemon_urls_time,
                serve_running, lock, now, events, calls, th,
                remoteLog, readLog, snapshot>>

VARIABLES
    \* image proxy: the path of the request and the response it got
    gdrive_file_path, response

proxyVars == <<gdrive_file_path, response>>

VARIABLES
    \* active upload group: _active_upload_group_internal and
    \* _active_upload_group of base.py, _active_upload_group of
    \* MultiRemoteService, the _group_state of GroupQuotaTracker, the content
    \* of storage/active_group.txt and RCLONE_AUTO_SWITCH_GROUP
    base_internal, base_group, mr_group, group_state, state_file, auto_switch,
    \* the last successful switch, and whether the process restarted since
    last_switch, restarted

policyVars == <<base_internal, base_group, mr_group, group_state, state_file,
                auto_switch, last_switch, restarted>>

VARIABLES
    \* bulk ingest: the progress entries by upload id, the job that
    \* bulk_upload_chapters or resume_upload is running (or ran last), the
    \* resume token it left, the results list of that job and the Page rows
    \* committed to the catalog
    upload_progress_store, job, resume_token_store, chapter_results, page_rows

ingestVars == <<upload_progress_store, job, resume_token_store,
                chapter_results, page_rows>>

VARIABLES
    \* subprocess environment: os.environ of the parent, and the env of the
    \* last child process with the call site that spawned it
    os_environ, child_env, spawn_site

envVars == <<os_environ, child_env, spawn_site>>

VARIABLES
    \* serve daemons: the registry RcloneService._serve_daemons, the child
    \* processes started so far, the remotes with a cached RcloneService,
    \* the background health-check threads, and whether the application is
    \* running or has shut down
    serve_daemons, processes, instances, health_threads, lifespan

daemonVars == <<serve_daemons, processes, instances, health_threads, lifespan>>

VARIABLES
    \* POST /resume/{resume_token}: the requests, each with the token it
    \* carries, its position in the handler and the token_data it read
    resume_requests

resumeVars == <<resume_requests>>

VARIABLES
    \* the main thread and RcloneService._serve_lock: whether the lock is
    \* held, the remote whose _start_serve_daemon_once the main thread is
    \* inside (0 for none), and whether SIGTERM or SIGINT was delivered
    serve_lock, main_thread, signal_received

signalVars == <<serve_lock, main_thread, signal_received>>

VARIABLES
    \* the worker processes: RcloneService._serve_port_counter of each and
    \* the ports each one has given to a daemon
    serve_port_counter, allocated_ports

portVars == <<serve_port_counter, allocated_ports>>

VARIABLES
    \* the age of the stored entries, in hours: the wall clock, "started_at"
    \* of the progress entry of every upload id and "created_at" of every
    \* resume token (None for no entry)
    wall_clock, progress_started_at, token_created_at

sweepVars == <<wall_clock, progress_started_at, token_created_at>>

vars == <<codecVars, routerVars, proxyVars, policyVars, ingestVars, envVars,
          daemonVars, resumeVars, signalVars, portVars, sweepVars>>

\* what a step of one part of the program leaves alone
CodecFrame ==
    UNCHANGED <<routerVars, proxyVars, policyVars, ingestVars, envVars, daemonVars,
                resumeVars, signalVars, portVars, sweepVars>>
RouterFrame ==
    UNCHANGED <<codecVars, proxyVars, policyVars, ingestVars, envVars, daemonVars,
                resumeVars, signalVars, portVars, sweepVars>>
ProxyFrame ==
    UNCHANGED <<codecVars, policyVars, ingestVars, envVars, daemonVars,
                resumeVars, signalVars, portVars, sweepVars>>
PolicyFrame ==
    UNCHANGED <<codecVars, routerVars, proxyVars, ingestVars, envVars, daemonVars,
                resumeVars, signalVars, portVars, sweepVars>>
IngestFrame ==
    UNCHANGED <<codecVars, routerVars, proxyVars, policyVars, envVars, daemonVars,
                resumeVars, signalVars, portVars, sweepVars>>
EnvFrame ==
    UNCHANGED <<codecVars, routerVars, proxyVars, policyVars, ingestVars, daemonVars,
                resumeVars, signalVars, portVars, sweepVars>>
DaemonFrame ==
    UNCHANGED <<codecVars, routerVars, proxyVars, policyVars, ingestVars, envVars,
                resumeVars, signalVars, portVars, sweepVars>>
ResumeFrame ==
    UNCHANGED <<codecVars, routerVars, proxyVars, policyVars, envVars, daemonVars,
                signalVars, portVars, sweepVars>>
SignalFrame ==
    UNCHANGED <<codecVars, routerVars, proxyVars, policyVars, ingestVars, envVars,
                resumeVars, portVars, sweepVars>>
PortFrame ==
    UNCHANGED <<codecVars, routerVars, proxyVars, policyVars, ingestVars, envVars,
                daemonVars, resumeVars, signalVars, sweepVars>>
SweepFrame ==
    UNCHANGED <<codecVars, routerVars, proxyVars, policyVars, ingestVars, envVars,
                daemonVars, resumeVars, signalVars, portVars>>

(***************************************************************************)
(* Bounds of the model.                                                    *)
(***************************************************************************)
\* longest path drawn over PathAlphabet as a codec input
MaxPathLen == 4
\* highest group number handed to mark_as_group
MaxGroup == 3
\* remotes configured in group 1 and in group 2
NumRemotes1 == 2
NumRemotes2 == 1
\* calls (selections, daemon reads, health requests) started in one run
MaxCalls == 3
\* events of the environment (the clock jumps, a daemon stops or starts)
\* in one run
MaxEvents == 1
\* groups with configured remotes, the quota of a group and the most that
\* is uploaded to one group, in uploads of one size
NumConfiguredGroups == 3
QuotaLimit == 2
MaxUploaded == 3
\* worker threads of the thread pool
NumThreads == 2
\* chapters of one archive, image files of one chapter, upload jobs
MaxChapters == 2
MaxFiles == 2
MaxJobs == 2
MaxReads == 1
\* resume requests sent in one run
NumRequests == 2
\* hours of wall-clock time in one run
MaxHours == 60
\* worker processes, and daemon starts (with restarts) of one worker
NumWorkers == 2
MaxStarts == 21
\* remotes with a serve daemon, and child processes started in one run
NumDaemonRemotes == 2
MaxProcesses == 3

(***************************************************************************)
(* Strings.                                                                *)
(***************************************************************************)
Digits == {"0", "1", "2", "3", "4", "5", "6", "7", "8", "9"}

DigitVal(c) ==
    CASE c = "0" -> 0 [] c = "1" -> 1 [] c = "2" -> 2 [] c = "3" -> 3
      [] c = "4" -> 4 [] c = "5" -> 5 [] c = "6" -> 6 [] c = "7" -> 7
      [] c = "8" -> 8 [] c = "9" -> 9

DigitChar(d) ==
    CASE d = 0 -> "0" [] d = 1 -> "1" [] d = 2 -> "2" [] d = 3 -> "3"
      [] d = 4 -> "4" [] d = 5 -> "5" [] d = 6 -> "6" [] d = 7 -> "7"
      [] d = 8 -> "8" [] d = 9 -> "9"

\* int(s) for a non-empty string of decimal digits
RECURSIVE StrToInt(_)
StrToInt(s) ==
    IF Len(s) = 0 THEN 0
    ELSE 10 * StrToInt(SubSeq(s, 1, Len(s) - 1)) + DigitVal(s[Len(s)])

\* str(n) for n >= 0
RECURSIVE IntToStr(_)
IntToStr(n) ==
    IF n < 10 THEN <<DigitChar(n)>>
    ELSE IntToStr(n \div 10) \o <<DigitChar(n % 10)>>

\* s.startswith(pre)
StartsWith(s, pre) ==
    /\ Len(s) >= Len(pre)
    /\ SubSeq(s, 1, Len(pre)) = pre

\* s.endswith(suf)
EndsWith(s, suf) ==
    /\ Len(s) >= Len(suf)
    /\ SubSeq(s, Len(s) - Len(suf) + 1, Len(s)) = suf

\* sub in s
Contains(s, sub) ==
    \E i \in 1..(Len(s) - Len(sub) + 1) : SubSeq(s, i, i + Len(sub) - 1) = sub

\* s[n:]
DropFirst(s, n) == SubSeq(s, n + 1, Len(s))

\* s.lstrip(chars): strips every leading character that is in the set chars
RECURSIVE LStrip(_, _)
LStrip(s, chars) ==
    IF Len(s) > 0 /\ s[1] \in chars THEN LStrip(Tail(s), chars) ELSE s

\* all strings over alphabet of length at most n
StringsUpTo(alphabet, n) == UNION {[1..k -> alphabet] : k \in 0..n}

(***************************************************************************)
(* Path codec of storage_group_service.py.                                 *)
(***************************************************************************)
\* number of consecutive digits of s starting at position i
RECURSIVE DigitRun(_, _)
DigitRun(s, i) ==
    IF i <= Len(s) /\ s[i] \in Digits THEN 1 + DigitRun(s, i + 1) ELSE 0

\* _GROUP_PREFIX_RE = ^@(\d+)/ : m.end() of the match, 0 when there is none
GroupPrefixEnd(path) ==
    IF Len(path) >= 1 /\ path[1] = "@"
    THEN LET n == DigitRun(path, 2)
         IN  IF n >= 1 /\ Len(path) >= n + 2 /\ path[n + 2] = "/"
             THEN n + 2
             ELSE 0
    ELSE 0

get_group_prefix(group) ==
    IF group <= 1 THEN <<>> ELSE <<"@">> \o IntToStr(group) \o <<"/">>

get_group_for_path(path) ==
    IF Len(path) = 0 THEN 1
    ELSE IF GroupPrefixEnd(path) > 0
         THEN StrToInt(SubSeq(path, 2, GroupPrefixEnd(path) - 1))
         ELSE IF StartsWith(path, <<"@">>) THEN 2 ELSE 1

\* the character-set strip the module documentation warns against
clean_path_lstrip(path) == LStrip(path, {"@"})

clean_path(path) ==
    IF Len(path) = 0 THEN path
    ELSE IF GroupPrefixEnd(path) > 0
         THEN DropFirst(path, GroupPrefixEnd(path))
         ELSE IF StartsWith(path, <<"@">>) THEN DropFirst(path, 1) ELSE path

\* marking without stripping an existing prefix first
mark_as_group_no_strip(path, group) == get_group_prefix(group) \o path

mark_as_group(path, group) == get_group_prefix(group) \o clean_path(path)

(***************************************************************************)
(* Path helpers of Settings (core/base.py).                                *)
(***************************************************************************)
GROUP2_PATH_PREFIX == <<"@">>

Settings_is_group2_path(path) ==
    IF Len(path) = 0 THEN FALSE ELSE StartsWith(path, GROUP2_PATH_PREFIX)

Settings_clean_path(path) ==
    IF Len(path) = 0 THEN path
    ELSE IF StartsWith(path, GROUP2_PATH_PREFIX)
         THEN DropFirst(path, Len(GROUP2_PATH_PREFIX))
         ELSE path

\* prefixing without the double-prefix guard
Settings_make_group2_path_no_guard(p) ==
    IF Len(p) = 0 THEN p ELSE GROUP2_PATH_PREFIX \o p

Settings_make_group2_path(p) ==
    IF Len(p) = 0 THEN p
    ELSE IF StartsWith(p, GROUP2_PATH_PREFIX) THEN p
         ELSE GROUP2_PATH_PREFIX \o p

Settings_get_group_for_path(path) ==
    IF Settings_is_group2_path(path) THEN 2 ELSE 1


(***************************************************************************)
(* CodecSpec: the codec functions applied to bounded inputs.  A run draws  *)
(* a path and a group and then applies one of the call sequences that the  *)
(* writers and readers of stored paths perform.                            *)
(***************************************************************************)
PathAlphabet == {"@", "/", "2", "a"}

ExamplePaths ==
    { <<"@", "@", "a", "b", "c">>,
      <<"@", "2", "/", "@", "3", "/", "x">>,
      <<"@", "2", "/", "x", "/", "y", ".", "j", "p", "g">> }

CodecPaths == StringsUpTo(PathAlphabet, MaxPathLen) \cup ExamplePaths

\* the places of the code that strip a group prefix from a stored path
StripSites == {"storage_group_service", "settings"}

CodecBlank ==
    /\ marked = <<>>
    /\ remarked = <<>>
    /\ decodedPath = <<>>
    /\ decodedGroup = 0
    /\ g2once = <<>>
    /\ g2twice = <<>>
    /\ stripSite = "none"
    /\ stripped = <<>>

CodecInit ==
    /\ inPath \in CodecPaths
    /\ inGroup \in 1..MaxGroup
    /\ stage = "input"
    /\ CodecBlank

\* the codec is not exercised
CodecIdle ==
    /\ inPath = <<>>
    /\ inGroup = 1
    /\ stage = "idle"
    /\ CodecBlank

\* make_db_path: mark_as_group(path, group)
MarkPath ==
    /\ stage = "input"
    /\ marked' = mark_as_group(inPath, inGroup)
    /\ stage' = "marked"
    /\ UNCHANGED <<inPath, inGroup, remarked, decodedPath, decodedGroup,
                   g2once, g2twice, stripSite, stripped>>
    /\ CodecFrame

\* resolve_remote_for_read on the marked path: its group and clean path
DecodePath ==
    /\ stage = "marked"
    /\ decodedGroup' = get_group_for_path(marked)
    /\ decodedPath' = clean_path(marked)
    /\ stage' = "decoded"
    /\ UNCHANGED <<inPath, inGroup, marked, remarked, g2once, g2twice,
                   stripSite, stripped>>
    /\ CodecFrame

\* mark_as_group applied to an already marked path
RemarkPath ==
    /\ stage = "marked"
    /\ remarked' = mark_as_group(marked, inGroup)
    /\ stage' = "remarked"
    /\ UNCHANGED <<inPath, inGroup, marked, decodedPath, decodedGroup,
                   g2once, g2twice, stripSite, stripped>>
    /\ CodecFrame

\* build_db_path for group 2: settings.make_group2_path(path)
MakeGroup2Path ==
    /\ stage = "input"
    /\ g2once' = Settings_make_group2_path(inPath)
    /\ stage' = "g2"
    /\ UNCHANGED <<inPath, inGroup, marked, remarked, decodedPath, decodedGroup,
                   g2twice, stripSite, stripped>>
    /\ CodecFrame

\* settings.make_group2_path applied to its own result
RemakeGroup2Path ==
    /\ stage = "g2"
    /\ g2twice' = Settings_make_group2_path(g2once)
    /\ stage' = "g2twice"
    /\ UNCHANGED <<inPath, inGroup, marked, remarked, decodedPath, decodedGroup,
                   g2once, stripSite, stripped>>
    /\ CodecFrame

\* a stored path is stripped for the sync tool: resolve_remote_for_read uses
\* clean_path, the image proxy and get_clean_path use settings.clean_path
StripPath ==
    /\ stage = "input"
    /\ \E site \in StripSites :
          /\ stripSite' = site
          /\ stripped' = IF site = "storage_group_service"
                          THEN clean_path(inPath)
                          ELSE Settings_clean_path(inPath)
    /\ stage' = "stripped"
    /\ UNCHANGED <<inPath, inGroup, marked, remarked, decodedPath, decodedGroup,
                   g2once, g2twice>>
    /\ CodecFrame

CodecNext ==
    \/ MarkPath
    \/ DecodePath
    \/ RemarkPath
    \/ MakeGroup2Path
    \/ RemakeGroup2Path
    \/ StripPath

(***************************************************************************)
(* MultiRemoteService: remote health, load balancing, daemon round robin.  *)
(* Remotes of a group are numbered in the order of its remote_names list;  *)
(* the serve daemon URL of a remote is identified by the remote's number.  *)
(* Time is counted in units of 30 seconds; None is the absent value.       *)
(***************************************************************************)
None == -1

\* self._groups has the keys 1 and 2
Groups == {1, 2}

NumRemotes(g) == IF g = 1 THEN NumRemotes1 ELSE NumRemotes2

RemotesOf(g) == 1..NumRemotes(g)

\* the remotes of a group in the iteration order of g["remotes"]
RemoteOrder(g) == [i \in 1..NumRemotes(g) |-> i]

Strategies == {"round_robin", "weighted", "random", "least_used"}

\* _DAEMON_CACHE_TTL = 30.0 seconds
DAEMON_CACHE_TTL == 1

\* timedelta(minutes=10) in _auto_recover_remotes
RecoveryThreshold == 20

\* timedelta(hours=24) in mark_failure
QuotaResetWindow == 2880

\* error_count >= 5 marks a remote unhealthy
UnhealthyErrorCount == 5

\* RemoteStatus.__init__ (last_used is written and never read: left out)
RemoteStatus ==
    [is_healthy |-> TRUE, error_count |-> 0, last_error_time |-> None,
     total_requests |-> 0, successful_requests |-> 0, failed_requests |-> 0,
     quota_exceeded |-> FALSE, quota_reset_time |-> None]

\* a RemoteStatus after UnhealthyErrorCount - 1 failed requests in a row
WornStatus ==
    [RemoteStatus EXCEPT !.error_count = UnhealthyErrorCount - 1,
                         !.last_error_time = 0,
                         !.total_requests = UnhealthyErrorCount - 1,
                         !.failed_requests = UnhealthyErrorCount - 1]

\* RemoteStatus.success_rate, rounded down to a whole percent
success_rate(s) ==
    IF s.total_requests = 0
    THEN 100
    ELSE (s.successful_requests * 100) \div s.total_requests

\* the quota block of a remote is in force at time clock
QuotaBlocked(s, clock) ==
    /\ s.quota_exceeded
    /\ s.quota_reset_time # None
    /\ clock < s.quota_reset_time

\* RemoteStatus.is_available: the value it returns
is_available(s, clock) == s.is_healthy /\ ~QuotaBlocked(s, clock)

\* RemoteStatus.is_available: the status it leaves (an expired or undated
\* quota flag of a healthy remote is cleared)
is_available_effect(s, clock) ==
    IF s.is_healthy /\ s.quota_exceeded /\ ~QuotaBlocked(s, clock)
    THEN [s EXCEPT !.quota_exceeded = FALSE, !.quota_reset_time = None]
    ELSE s

\* the list comprehension of get_next_remote over the statuses st of group g
AvailableList(st, g, clock) ==
    SelectSeq(RemoteOrder(g), LAMBDA r : is_available(st[r], clock))

\* the statuses of a group after is_available was evaluated on each of them
AfterAvailabilityCheck(st, clock) ==
    [r \in DOMAIN st |-> is_available_effect(st[r], clock)]

\* RemoteStatus.reset_health
reset_health(s) == [s EXCEPT !.is_healthy = TRUE, !.error_count = 0]

\* _auto_recover_remotes over the statuses st of one group
auto_recover_remotes(st, clock) ==
    [r \in DOMAIN st |->
        IF /\ ~st[r].is_healthy
           /\ st[r].last_error_time # None
           /\ st[r].last_error_time < clock - RecoveryThreshold
        THEN reset_health(st[r])
        ELSE st[r]]

\* _round_robin_select: the position it picks and the index it stores
round_robin_pick(rr, available) == (rr % Len(available)) + 1
round_robin_next(rr, available) == (rr + 1) % Len(available)

\* _least_used_select: sorted() is stable, so the first remote with the
\* least total_requests
least_used_pick(st, available) ==
    CHOOSE i \in 1..Len(available) :
        /\ \A j \in 1..Len(available) :
              st[available[i]].total_requests <= st[available[j]].total_requests
        /\ \A j \in 1..(i - 1) :
              st[available[j]].total_requests > st[available[i]].total_requests

\* _weighted_select: random.choices can return any position of positive
\* weight; random.choice any position when every weight is 0
weighted_picks(st, available) ==
    LET positive == {i \in 1..Len(available) : success_rate(st[available[i]]) > 0}
    IN  IF positive = {} THEN 1..Len(available) ELSE positive

\* the positions of available that get_next_remote can return
SelectablePositions(strategy, st, rr, available) ==
    IF strategy = "weighted" THEN weighted_picks(st, available)
    ELSE IF strategy = "random" THEN 1..Len(available)
    ELSE IF strategy = "least_used" THEN {least_used_pick(st, available)}
    ELSE {round_robin_pick(rr, available)}

\* _get_all_active_daemon_urls: the URL list it returns for group g
active_daemon_urls(g) ==
    IF /\ ~daemon_urls_cache[g].is_none
       /\ (now - daemon_urls_time[g]) < DAEMON_CACHE_TTL
    THEN daemon_urls_cache[g].urls
    ELSE SelectSeq(RemoteOrder(g), LAMBDA r : r \in serve_running[g])

\* _get_all_active_daemon_urls: the time stamp it leaves for group g
active_daemon_urls_time(g) ==
    IF /\ ~daemon_urls_cache[g].is_none
       /\ (now - daemon_urls_time[g]) < DAEMON_CACHE_TTL
    THEN daemon_urls_time[g]
    ELSE now

\* get_next_daemon_url: the URL it returns for the list urls and index rr
next_daemon_url(urls, rr) ==
    IF urls = <<>> THEN None ELSE urls[(rr % Len(urls)) + 1]

\* get_next_daemon_url: the index it leaves
next_daemon_index(urls, rr) == IF urls = <<>> THEN rr ELSE rr + 1

\* a worker thread that is in no call
IdleThread ==
    [pc |-> "idle", group |-> 1, strategy |-> "round_robin",
     available |-> <<>>, remote |-> 0, is_quota_error |-> FALSE,
     cursor |-> 0, blocked |-> FALSE]

Threads == 1..NumThreads

\* the clock jumps by one cache lifetime, past the recovery threshold, or by
\* the quota window
ClockJumps == {DAEMON_CACHE_TTL, RecoveryThreshold + 1, QuotaResetWindow}

NoSnapshot ==
    [taken |-> FALSE,
     remotes |-> [g \in Groups |-> [r \in RemotesOf(g) |->
        [total_requests |-> 0, successful_requests |-> 0,
         failed_requests |-> 0, success_rate |-> 100]]]]

RouterBlank ==
    /\ rr_index = [g \in Groups |-> 0]
    /\ daemon_urls_cache = [g \in Groups |-> [is_none |-> TRUE, urls |-> <<>>]]
    /\ daemon_urls_time = [g \in Groups |-> 0]
    /\ lock = 0
    /\ now = 0
    /\ events = 0
    /\ calls = 0
    /\ th = [t \in Threads |-> IdleThread]
    /\ remoteLog = [g \in Groups |-> <<>>]
    /\ readLog = [g \in Groups |-> <<>>]
    /\ snapshot = NoSnapshot

\* MultiRemoteService.__init__, with every serve daemon started; the last
\* remote of group 2 is either new or has failed requests behind it
RouterInit ==
    /\ \E s \in {RemoteStatus, WornStatus} :
          status = [g \in Groups |-> [r \in RemotesOf(g) |->
                      IF g = 2 /\ r = NumRemotes2 THEN s ELSE RemoteStatus]]
    /\ serve_running = [g \in Groups |-> RemotesOf(g)]
    /\ RouterBlank

\* a RemoteStatus after one request that failed with a quota error at time 0
ExceededStatus ==
    [RemoteStatus EXCEPT !.error_count = 1,
                         !.last_error_time = 0,
                         !.total_requests = 1,
                         !.failed_requests = 1,
                         !.quota_exceeded = TRUE,
                         !.quota_reset_time = QuotaResetWindow]

\* the router is not called; the remotes of a group are all new or have all
\* run into their quota
RouterRemotes ==
    /\ \E s1, s2 \in {RemoteStatus, ExceededStatus} :
          status = [g \in Groups |-> [r \in RemotesOf(g) |->
                      IF g = 1 THEN s1 ELSE s2]]
    /\ serve_running = [g \in Groups |-> RemotesOf(g)]
    /\ RouterBlank

\* the router is not exercised
RouterIdle ==
    /\ status = [g \in Groups |-> [r \in RemotesOf(g) |-> RemoteStatus]]
    /\ serve_running = [g \in Groups |-> RemotesOf(g)]
    /\ RouterBlank

\* get_next_remote, first half: take self.lock and build the available list
\* (a call runs on the first worker thread that is free)
GetNextRemoteFilter(t) ==
    /\ th[t].pc = "idle"
    /\ \A u \in 1..(t - 1) : th[u].pc # "idle"
    /\ lock = 0
    /\ calls < MaxCalls
    /\ \E g \in Groups, strategy \in Strategies :
          /\ status' = [status EXCEPT ![g] = AfterAvailabilityCheck(status[g], now)]
          /\ th' = [th EXCEPT ![t] =
                      [IdleThread EXCEPT !.pc = "filtered", !.group = g,
                                         !.strategy = strategy,
                                         !.available = AvailableList(status[g], g, now)]]
    /\ lock' = t
    /\ calls' = calls + 1
    /\ UNCHANGED <<rr_index, daemon_urls_cache, daemon_urls_time, serve_running,
                   now, events, remoteLog, readLog, snapshot>>
    /\ RouterFrame

\* get_next_remote, second half: recover and filter again when nothing is
\* available, raise RuntimeError when still nothing is, otherwise select by
\* strategy, release self.lock and return
GetNextRemoteSelect(t) ==
    /\ th[t].pc = "filtered"
    /\ LET g == th[t].group
           empty == th[t].available = <<>>
           recovered == IF empty
                        THEN auto_recover_remotes(status[g], now)
                        ELSE status[g]
           st == IF empty THEN AfterAvailabilityCheck(recovered, now)
                          ELSE status[g]
           available == IF empty THEN AvailableList(recovered, g, now)
                                 ELSE th[t].available
       IN  IF available = <<>>
           THEN /\ status' = [status EXCEPT ![g] = st]
                /\ th' = [th EXCEPT ![t] = IdleThread]
                /\ lock' = 0
                /\ UNCHANGED <<rr_index, remoteLog>>
           ELSE IF th[t].strategy \notin {"weighted", "random", "least_used"}
           THEN /\ status' = [status EXCEPT ![g] = st]
                /\ th' = [th EXCEPT ![t] =
                            [IdleThread EXCEPT
                               !.pc = "picked", !.group = g,
                               !.strategy = th[t].strategy,
                               !.available = available,
                               !.remote = available[round_robin_pick(rr_index[g],
                                                                     available)],
                               !.cursor = rr_index[g],
                               !.blocked =
                                  QuotaBlocked(st[available[round_robin_pick(
                                                  rr_index[g], available)]], now)]]
                /\ UNCHANGED <<rr_index, remoteLog, lock>>
           ELSE \E i \in SelectablePositions(th[t].strategy, st, rr_index[g], available) :
                   /\ status' = [status EXCEPT ![g] = st]
                   /\ rr_index' = rr_index
                   /\ th' = [th EXCEPT ![t] =
                               [IdleThread EXCEPT !.pc = "got", !.group = g,
                                                  !.remote = available[i]]]
                   /\ remoteLog' = [remoteLog EXCEPT ![g] = Append(@,
                          [remote |-> available[i],
                           round_robin |-> FALSE,
                           available |-> available,
                           blocked |-> QuotaBlocked(st[available[i]], now)])]
                   /\ lock' = 0
    /\ UNCHANGED <<daemon_urls_cache, daemon_urls_time, serve_running, now,
                   events, calls, readLog, snapshot>>
    /\ RouterFrame

\* _round_robin_select, second statement, and the return of get_next_remote:
\* g["rr_index"] = (g["rr_index"] + 1) % len(available), with the index
\* read again; self.lock is released
RoundRobinAdvance(t) ==
    /\ th[t].pc = "picked"
    /\ LET g == th[t].group
       IN  /\ rr_index' = [rr_index EXCEPT ![g] =
                              round_robin_next(rr_index[g], th[t].available)]
           /\ remoteLog' = [remoteLog EXCEPT ![g] = Append(@,
                  [remote |-> th[t].remote,
                   round_robin |-> TRUE,
                   available |-> th[t].available,
                   blocked |-> th[t].blocked])]
           /\ th' = [th EXCEPT ![t] =
                       [IdleThread EXCEPT !.pc = "got", !.group = g,
                                          !.remote = th[t].remote]]
    /\ lock' = 0
    /\ UNCHANGED <<status, daemon_urls_cache, daemon_urls_time, serve_running,
                   now, events, calls, readLog, snapshot>>
    /\ RouterFrame

\* the status of the remote thread t works on, with one field changed
WithField(t, field, value) ==
    [status EXCEPT ![th[t].group][th[t].remote][field] = value]

CurrentStatus(t) == status[th[t].group][th[t].remote]

RouterRest ==
    UNCHANGED <<rr_index, daemon_urls_cache, daemon_urls_time, serve_running,
                lock, now, events, calls, remoteLog, readLog, snapshot>>

\* the status of the remote of thread t after the last statement of
\* mark_failure: if self.error_count >= 5 then self.is_healthy = False
WithHealthCheck(s) ==
    IF s.error_count >= UnhealthyErrorCount
    THEN [s EXCEPT !.is_healthy = FALSE]
    ELSE s

\* the download succeeded; mark_success: self.total_requests += 1
MarkSuccessTotal(t) ==
    /\ th[t].pc = "got"
    /\ status' = WithField(t, "total_requests", CurrentStatus(t).total_requests + 1)
    /\ th' = [th EXCEPT ![t].pc = "success_counted"]
    /\ RouterRest
    /\ RouterFrame

\* mark_success: self.successful_requests += 1; self.error_count = 0, and
\* the call is over
MarkSuccessSuccessful(t) ==
    /\ th[t].pc = "success_counted"
    /\ status' = [status EXCEPT ![th[t].group][th[t].remote] =
                    [@ EXCEPT !.successful_requests = @ + 1,
                              !.error_count = 0]]
    /\ th' = [th EXCEPT ![t] = IdleThread]
    /\ RouterRest
    /\ RouterFrame

\* the download failed, with or without a quota error; mark_failure:
\* self.total_requests += 1
MarkFailureTotal(t) ==
    /\ th[t].pc = "got"
    /\ status' = WithField(t, "total_requests", CurrentStatus(t).total_requests + 1)
    /\ \E is_quota_error \in BOOLEAN :
          th' = [th EXCEPT ![t].pc = "failure_counted",
                           ![t].is_quota_error = is_quota_error]
    /\ RouterRest
    /\ RouterFrame

\* mark_failure: self.failed_requests += 1; self.last_error_time = utcnow();
\* self.error_count += 1; without a quota error the health check follows
\* and the call is over
MarkFailureFailed(t) ==
    /\ th[t].pc = "failure_counted"
    /\ LET s == [CurrentStatus(t) EXCEPT !.failed_requests = @ + 1,
                                         !.last_error_time = now,
                                         !.error_count = @ + 1]
       IN  IF th[t].is_quota_error
           THEN /\ status' = [status EXCEPT ![th[t].group][th[t].remote] = s]
                /\ th' = [th EXCEPT ![t].pc = "quota_flag"]
           ELSE /\ status' = [status EXCEPT ![th[t].group][th[t].remote] =
                                WithHealthCheck(s)]
                /\ th' = [th EXCEPT ![t] = IdleThread]
    /\ RouterRest
    /\ RouterFrame

\* mark_failure with a quota error: self.quota_exceeded = True
MarkFailureQuotaExceeded(t) ==
    /\ th[t].pc = "quota_flag"
    /\ status' = WithField(t, "quota_exceeded", TRUE)
    /\ th' = [th EXCEPT ![t].pc = "quota_time"]
    /\ RouterRest
    /\ RouterFrame

\* mark_failure with a quota error: self.quota_reset_time = utcnow() + 24 h;
\* the health check follows and the call is over
MarkFailureQuotaResetTime(t) ==
    /\ th[t].pc = "quota_time"
    /\ status' = [status EXCEPT ![th[t].group][th[t].remote] =
                    WithHealthCheck([@ EXCEPT !.quota_reset_time =
                                                now + QuotaResetWindow])]
    /\ th' = [th EXCEPT ![t] = IdleThread]
    /\ RouterRest
    /\ RouterFrame

\* _get_all_active_daemon_urls run for every group: the cache it leaves
RefreshedCache ==
    [g \in Groups |-> [is_none |-> FALSE, urls |-> active_daemon_urls(g)]]

RefreshedTime == [g \in Groups |-> active_daemon_urls_time(g)]

\* what get_health_status reports of the request counters of every remote
HealthReport ==
    [taken |-> TRUE,
     remotes |-> [g \in Groups |-> [r \in RemotesOf(g) |->
        [total_requests |-> status[g][r].total_requests,
         successful_requests |-> status[g][r].successful_requests,
         failed_requests |-> status[g][r].failed_requests,
         success_rate |-> success_rate(status[g][r])]]]]

\* _get_daemon_url_for_file for a read routed to group g: get_next_daemon_url
ReadViaDaemon(g) ==
    /\ calls < MaxCalls
    /\ LET urls == active_daemon_urls(g)
           url == next_daemon_url(urls, rr_index[g])
       IN  /\ daemon_urls_cache' = [daemon_urls_cache EXCEPT
                                      ![g] = [is_none |-> FALSE, urls |-> urls]]
           /\ daemon_urls_time' = [daemon_urls_time EXCEPT
                                     ![g] = active_daemon_urls_time(g)]
           /\ rr_index' = [rr_index EXCEPT ![g] = next_daemon_index(urls, @)]
           /\ readLog' = IF url = None
                         THEN readLog
                         ELSE [readLog EXCEPT ![g] =
                                 Append(@, [url |-> url, urls |-> urls])]
    /\ calls' = calls + 1
    /\ UNCHANGED <<status, serve_running, lock, now, events, th, remoteLog,
                   snapshot>>
    /\ RouterFrame

\* GET /remotes/health: get_health_status, which evaluates is_available on
\* every status and refreshes the daemon URL caches
GetRemotesHealth ==
    /\ calls < MaxCalls
    /\ snapshot' = HealthReport
    /\ status' = [g \in Groups |-> AfterAvailabilityCheck(status[g], now)]
    /\ daemon_urls_cache' = RefreshedCache
    /\ daemon_urls_time' = RefreshedTime
    /\ calls' = calls + 1
    /\ UNCHANGED <<rr_index, serve_running, lock, now, events, th, remoteLog,
                   readLog>>
    /\ RouterFrame

\* GET /health of the image proxy: get_health_status, then
\* get_next_daemon_url for group 1 and for group 2
HealthCheck ==
    /\ calls < MaxCalls
    /\ snapshot' = HealthReport
    /\ status' = [g \in Groups |-> AfterAvailabilityCheck(status[g], now)]
    /\ daemon_urls_cache' = RefreshedCache
    /\ daemon_urls_time' = RefreshedTime
    /\ rr_index' = [g \in Groups |->
                      next_daemon_index(active_daemon_urls(g), rr_index[g])]
    /\ calls' = calls + 1
    /\ UNCHANGED <<serve_running, lock, now, events, th, remoteLog, readLog>>
    /\ RouterFrame

\* time passes
AdvanceClock ==
    /\ events < MaxEvents
    /\ \E d \in ClockJumps : now' = now + d
    /\ events' = events + 1
    /\ UNCHANGED <<status, rr_index, daemon_urls_cache, daemon_urls_time,
                   serve_running, lock, calls, th, remoteLog, readLog, snapshot>>
    /\ RouterFrame

\* the serve daemon of a remote stops, or is started again
ToggleDaemon ==
    /\ events < MaxEvents
    /\ \E g \in Groups : \E r \in RemotesOf(g) :
          serve_running' = [serve_running EXCEPT ![g] =
                              IF r \in @ THEN @ \ {r} ELSE @ \cup {r}]
    /\ events' = events + 1
    /\ UNCHANGED <<status, rr_index, daemon_urls_cache, daemon_urls_time,
                   lock, now, calls, th, remoteLog, readLog, snapshot>>
    /\ RouterFrame

RouterNext ==
    \/ \E t \in Threads : GetNextRemoteFilter(t)
    \/ \E t \in Threads : GetNextRemoteSelect(t)
    \/ \E t \in Threads : RoundRobinAdvance(t)
    \/ \E t \in Threads : MarkSuccessTotal(t)
    \/ \E t \in Threads : MarkSuccessSuccessful(t)
    \/ \E t \in Threads : MarkFailureTotal(t)
    \/ \E t \in Threads : MarkFailureFailed(t)
    \/ \E t \in Threads : MarkFailureQuotaExceeded(t)
    \/ \E t \in Threads : MarkFailureQuotaResetTime(t)
    \/ \E g \in Groups : ReadViaDaemon(g)
    \/ GetRemotesHealth
    \/ HealthCheck
    \/ AdvanceClock

(***************************************************************************)
(* The image proxy: GET /image/{gdrive_file_path}.                         *)
(***************************************************************************)
LowerChar(c) ==
    CASE c = "J" -> "j"
      [] c = "P" -> "p"
      [] c = "G" -> "g"
      [] c = "A" -> "a"
      [] OTHER -> c

\* str.lower()
Lower(s) == [i \in 1..Len(s) |-> LowerChar(s[i])]

\* valid_extensions of validate_file_path
valid_extensions ==
    { <<".", "j", "p", "g">>, <<".", "j", "p", "e", "g">>,
      <<".", "p", "n", "g">>, <<".", "w", "e", "b", "p">>,
      <<".", "g", "i", "f">> }

\* validate_file_path: the status of the HTTPException it raises, 0 if none
validate_file_path(file_path) ==
    LET check_path == Settings_clean_path(file_path)
    IN  IF \/ Contains(check_path, <<".", ".">>)
           \/ StartsWith(check_path, <<"/">>)
           \/ Contains(check_path, <<"\\">>)
        THEN 400
        ELSE IF Len(check_path) < 5
        THEN 400
        ELSE IF ~\E ext \in valid_extensions : EndsWith(Lower(check_path), ext)
        THEN 400
        ELSE 0

\* get_image_content_type: by the extension of the cleaned, lowered name
get_image_content_type(filename) ==
    LET clean == Lower(Settings_clean_path(filename))
    IN  IF EndsWith(clean, <<".", "p", "n", "g">>) THEN "image/png"
        ELSE IF EndsWith(clean, <<".", "w", "e", "b", "p">>) THEN "image/webp"
        ELSE IF EndsWith(clean, <<".", "g", "i", "f">>) THEN "image/gif"
        ELSE "image/jpeg"

ProxyPrefixes ==
    { <<>>, <<"@">>, <<"@", "2", "/">>, <<"@", "3", "/">>, <<"/">>,
      <<".", ".", "/">> }

ProxyNames ==
    { <<"x", "/", "y", ".", "j", "p", "g">>, <<"a", "b", ".", "p", "n", "g">>,
      <<"x", "/", "A", ".", "J", "P", "G">>, <<"x", "/", "y", ".", "t", "x", "t">>,
      <<"a", "\\", "b", ".", "g", "i", "f">>, <<".", "j", "p", "g">> }

\* the paths requested from the proxy
ProxyRequests == {pre \o name : pre \in ProxyPrefixes, name \in ProxyNames}

\* max_retries as get_image_proxy passes it to download_file_to_memory_async
ProxyMaxRetries == 2

\* what rclone.download_file_async gives one attempt: the bytes of the file,
\* or None, which is what a 404 of the serve daemon, a failed rclone cat and
\* a failed remote all end in; a file that is not stored never gives bytes
FallbackOutcomes(file_exists) ==
    IF file_exists THEN {"content", "none"} ELSE {"none"}

\* RemoteStatus.mark_success
mark_success(s) ==
    [s EXCEPT !.total_requests = @ + 1,
              !.successful_requests = @ + 1,
              !.error_count = 0]

\* RemoteStatus.mark_failure
mark_failure(s, is_quota_error, clock) ==
    LET counted == [s EXCEPT !.total_requests = @ + 1,
                             !.failed_requests = @ + 1,
                             !.last_error_time = clock,
                             !.error_count = @ + 1]
        flagged == IF is_quota_error
                   THEN [counted EXCEPT !.quota_exceeded = TRUE,
                                        !.quota_reset_time = clock + QuotaResetWindow]
                   ELSE counted
    IN  IF flagged.error_count >= UnhealthyErrorCount
        THEN [flagged EXCEPT !.is_healthy = FALSE]
        ELSE flagged

\* total_attempts of download_file_to_memory_async for group g
total_attempts(g, max_retries) == NumRemotes(g) * max_retries

\* the requests the trackers of a group have counted
RECURSIVE RequestsCounted(_, _)
RequestsCounted(st, remotes) ==
    IF remotes = {} THEN 0
    ELSE LET r == CHOOSE x \in remotes : TRUE
         IN  st[r].total_requests + RequestsCounted(st, remotes \ {r})

\* what the serve daemon behind a URL does with GET /{file_path}: it sends
\* the file, answers 404, answers another status, breaks the stream, or, when
\* its process is gone, refuses the connection
DaemonAnswers(g, url) ==
    IF url \in serve_running[g]
    THEN {"ok", "not_found", "bad_status", "stream_error"}
    ELSE {"connect_error"}

\* the response of the proxy: status and X-Storage-Mode as the client gets
\* them, whether the body is the file, and what the daemon and the cat
\* download answered; running is the set of daemons of the group that were
\* up when the request came; of a fallback read, whether the file is
\* stored, the download attempts made, the largest number of available
\* remotes get_next_remote found, the requests the trackers of the group had
\* counted before, and whether get_next_remote raised RuntimeError
NoResponse ==
    [status_code |-> 0, mode |-> "none", content_type |-> "",
     daemon_group |-> 0, fallback_group |-> 0, storage_group |-> 0,
     upstream_path |-> <<>>, body |-> "none", daemon_answer |-> "none",
     cat_answer |-> "none", running |-> {}, file_exists |-> FALSE,
     attempts |-> 0, available_remotes |-> 0, requests_at_start |-> 0,
     no_remote |-> FALSE]

\* the proxy is not exercised
ProxyIdle ==
    /\ gdrive_file_path = <<>>
    /\ response = NoResponse

\* a request arrives at a new service; in each group the serve daemons are
\* all running or all stopped
ProxyInit ==
    /\ gdrive_file_path \in ProxyRequests
    /\ response = NoResponse
    /\ \E last \in {RemoteStatus, WornStatus} :
          status = [g \in Groups |-> [r \in RemotesOf(g) |->
                       IF r = NumRemotes(g) THEN last ELSE RemoteStatus]]
    /\ \E up \in SUBSET Groups :
          serve_running = [g \in Groups |-> IF g \in up THEN RemotesOf(g) ELSE {}]
    /\ RouterBlank

\* get_image_proxy: validate the path, pick the group and the clean path with
\* the Settings helpers, take the next daemon URL of the group
\* (_get_daemon_url_for_file) and return a StreamingResponse over
\* _stream_from_serve_daemon; without a daemon URL, download clean_path from
\* the remotes of the group.  The generator _stream_from_serve_daemon runs
\* when the response is sent, after the handler has returned and status 200
\* with the headers is out: what it raises reaches no except clause of the
\* handler, and the body ends there.
GetImageProxy ==
    /\ response = NoResponse
    /\ LET validated_path == gdrive_file_path
           content_type == get_image_content_type(validated_path)
           active_group == IF Settings_is_group2_path(validated_path) THEN 2 ELSE 1
           clean == Settings_clean_path(validated_path)
           resolved_group == Settings_get_group_for_path(validated_path)
           urls == active_daemon_urls(resolved_group)
           daemon_url == next_daemon_url(urls, rr_index[resolved_group])
           answer == [NoResponse EXCEPT !.content_type = content_type,
                                        !.daemon_group = resolved_group,
                                        !.running = serve_running[resolved_group]]
       IN  IF validate_file_path(gdrive_file_path) # 0
           THEN /\ response' = [NoResponse EXCEPT
                                  !.status_code = validate_file_path(gdrive_file_path),
                                  !.mode = "rejected"]
                /\ UNCHANGED <<daemon_urls_cache, daemon_urls_time, rr_index,
                               readLog>>
           ELSE /\ daemon_urls_cache' = [daemon_urls_cache EXCEPT
                      ![resolved_group] = [is_none |-> FALSE, urls |-> urls]]
                /\ daemon_urls_time' = [daemon_urls_time EXCEPT
                      ![resolved_group] = active_daemon_urls_time(resolved_group)]
                /\ rr_index' = [rr_index EXCEPT
                      ![resolved_group] = next_daemon_index(urls, @)]
                /\ IF daemon_url # None
                   THEN /\ readLog' = [readLog EXCEPT ![resolved_group] =
                               Append(@, [url |-> daemon_url, urls |-> urls])]
                        /\ \E daemon_answer \in DaemonAnswers(resolved_group, daemon_url) :
                              response' = [answer EXCEPT
                                 !.status_code = 200,
                                 !.mode = "daemon",
                                 !.storage_group = resolved_group,
                                 !.upstream_path = <<"/">> \o clean,
                                 !.daemon_answer = daemon_answer,
                                 !.body = IF daemon_answer = "ok" THEN "file"
                                                                   ELSE "aborted"]
                   ELSE /\ readLog' = readLog
                        /\ \E file_exists \in BOOLEAN :
                              response' = [answer EXCEPT
                                 !.mode = "fallback",
                                 !.fallback_group = active_group,
                                 !.upstream_path = clean,
                                 !.file_exists = file_exists,
                                 !.available_remotes =
                                     Len(AvailableList(status[active_group],
                                                       active_group, now)),
                                 !.requests_at_start =
                                     RequestsCounted(status[active_group],
                                                     RemotesOf(active_group))]
    /\ UNCHANGED <<gdrive_file_path, status, serve_running, lock, now, events,
                   calls, th, remoteLog, snapshot>>
    /\ ProxyFrame

\* one turn of the loop of download_file_to_memory_async, and, when the loop
\* ends with it, the rest of get_image_proxy: get_next_remote filters the
\* available remotes of the group, recovers once when there is none and
\* raises RuntimeError when there is still none (the loop breaks, the
\* download returns None); the remote it selects downloads the file;
\* bytes are marked a success and served, None is marked a failure and the
\* loop goes on until total_attempts; None from the download is HTTP 404
DownloadAttempt ==
    /\ response.mode = "fallback"
    /\ response.status_code = 0
    /\ LET g == response.fallback_group
           checked == AfterAvailabilityCheck(status[g], now)
           empty == AvailableList(status[g], g, now) = <<>>
           recovered == IF empty THEN auto_recover_remotes(checked, now)
                                 ELSE checked
           st == IF empty THEN AfterAvailabilityCheck(recovered, now)
                          ELSE checked
           available == AvailableList(recovered, g, now)
           seen == [response EXCEPT !.available_remotes =
                        IF Len(available) > @ THEN Len(available) ELSE @]
           not_found == [seen EXCEPT !.status_code = 404,
                                     !.cat_answer = "empty"]
       IN  IF available = <<>>
           THEN /\ status' = [status EXCEPT ![g] = st]
                /\ response' = [not_found EXCEPT !.no_remote = TRUE]
                /\ UNCHANGED rr_index
           ELSE LET remote == available[round_robin_pick(rr_index[g], available)]
                    attempt == response.attempts + 1
                IN  /\ rr_index' = [rr_index EXCEPT ![g] =
                                       round_robin_next(rr_index[g], available)]
                    /\ \E content \in FallbackOutcomes(response.file_exists) :
                          IF content = "content"
                          THEN /\ status' = [status EXCEPT ![g] =
                                     [st EXCEPT ![remote] = mark_success(@)]]
                               /\ response' = [seen EXCEPT
                                     !.status_code = 200,
                                     !.storage_group = g,
                                     !.cat_answer = "content",
                                     !.body = "file",
                                     !.attempts = attempt]
                          ELSE /\ status' = [status EXCEPT ![g] =
                                     [st EXCEPT ![remote] =
                                         mark_failure(@, FALSE, now)]]
                               /\ response' =
                                     IF attempt < total_attempts(g, ProxyMaxRetries)
                                     THEN [seen EXCEPT !.attempts = attempt]
                                     ELSE [not_found EXCEPT !.attempts = attempt]
    /\ UNCHANGED <<gdrive_file_path, daemon_urls_cache, daemon_urls_time,
                   serve_running, lock, now, events, calls, th, remoteLog, readLog,
                   snapshot>>
    /\ ProxyFrame

\* the next request arrives
NextRequest ==
    /\ response.status_code # 0
    /\ calls < MaxReads
    /\ gdrive_file_path' \in ProxyRequests
    /\ response' = NoResponse
    /\ calls' = calls + 1
    /\ UNCHANGED <<status, rr_index, daemon_urls_cache, daemon_urls_time,
                   serve_running, lock, now, events, th, remoteLog, readLog,
                   snapshot>>
    /\ ProxyFrame

ProxyNext ==
    \/ GetImageProxy
    \/ DownloadAttempt
    \/ NextRequest
    \/ ToggleDaemon
    \/ AdvanceClock


(***************************************************************************)
(* The active upload group: the module state of base.py, the value held by *)
(* MultiRemoteService, the GroupQuotaTracker and storage/active_group.txt. *)
(* The file is modelled by its text, the empty text when it is absent;     *)
(* uploaded bytes are counted in uploads of one size.                      *)
(***************************************************************************)
\* _get_all_configured_groups: the groups 1..NumConfiguredGroups have remotes
ConfiguredGroups == 1..NumConfiguredGroups

\* _read_active_group_file: int() of the text when that is at least 1
read_active_group_file(text) ==
    IF text = <<>> \/ \E i \in 1..Len(text) : text[i] \notin Digits
    THEN None
    ELSE IF StrToInt(text) >= 1 THEN StrToInt(text) ELSE None

\* _write_active_group_file: str(group)
write_active_group_file(group) == IntToStr(group)

\* GroupQuotaTracker._init_groups: every group below the saved one is full
init_groups(text) ==
    LET saved_group == read_active_group_file(text)
    IN  [g \in ConfiguredGroups |->
            [uploaded_bytes |-> 0,
             is_full |-> /\ saved_group # None
                         /\ saved_group > 1
                         /\ saved_group \in ConfiguredGroups
                         /\ g < saved_group]]

\* GroupQuotaTracker.get_active_upload_group
tracker_get_active_upload_group ==
    LET saved == read_active_group_file(state_file)
        open == {g \in DOMAIN group_state : ~group_state[g].is_full}
    IN  IF ~auto_switch
        THEN IF saved # None /\ saved >= 1 /\ saved \in DOMAIN group_state
             THEN saved
             ELSE 1
        ELSE IF open # {}
             THEN CHOOSE g \in open : \A h \in open : g <= h
             ELSE CHOOSE g \in DOMAIN group_state :
                     \A h \in DOMAIN group_state : h <= g

\* MultiRemoteService.get_active_upload_group: the value of base.py
multi_remote_get_active_upload_group == base_group

\* Settings.get_active_upload_group
settings_get_active_upload_group == base_internal

\* GroupQuotaTracker.record_upload
record_upload(gs, bytes_uploaded, group) ==
    IF group \notin DOMAIN gs
    THEN gs
    ELSE LET uploaded == gs[group].uploaded_bytes + bytes_uploaded
         IN  [gs EXCEPT ![group] =
                [uploaded_bytes |-> uploaded,
                 is_full |-> \/ gs[group].is_full
                             \/ (QuotaLimit > 0 /\ uploaded >= QuotaLimit)]]

\* GroupQuotaTracker.mark_group_full of a configured group
mark_group_full(gs, group) == [gs EXCEPT ![group].is_full = TRUE]

\* GroupQuotaTracker.reset
reset(gs, group) ==
    IF group \in DOMAIN gs
    THEN [gs EXCEPT ![group] = [uploaded_bytes |-> 0, is_full |-> FALSE]]
    ELSE gs

NoSwitch == [group |-> 0, by |-> "none"]

PolicyBlank ==
    /\ base_internal = 1
    /\ base_group = 1
    /\ mr_group = 1
    /\ state_file = <<>>
    /\ group_state = init_groups(<<>>)
    /\ last_switch = NoSwitch
    /\ restarted = FALSE

\* first boot: no state file yet
PolicyInit ==
    /\ auto_switch \in BOOLEAN
    /\ PolicyBlank

\* first boot with RCLONE_AUTO_SWITCH_GROUP set
PolicyAutoSwitch ==
    /\ auto_switch = TRUE
    /\ PolicyBlank

\* the policy is not exercised
PolicyIdle ==
    /\ auto_switch = FALSE
    /\ PolicyBlank

\* POST /groups/switch: MultiRemoteService.set_active_upload_group, which
\* sets its own value and, through set_active_upload_group of base.py, both
\* module values; group 2 needs remotes
ManualSwitchGroup ==
    /\ \E target_group \in 1..2 :
          IF target_group = 2 /\ NumRemotes2 = 0
          THEN UNCHANGED <<base_internal, base_group, mr_group, last_switch>>
          ELSE /\ mr_group' = target_group
               /\ base_group' = target_group
               /\ base_internal' = target_group
               /\ last_switch' = [group |-> target_group, by |-> "multi_remote"]
    /\ restarted' = FALSE
    /\ UNCHANGED <<group_state, state_file, auto_switch>>
    /\ PolicyFrame

\* StorageGroupService.switch_upload_group: settings.set_active_upload_group
\* (its ValueError for a group above 2 is passed over), the lower groups are
\* marked full, the target is reset, the file is written (the write can
\* fail, which is logged and no more)
SwitchUploadGroup ==
    /\ \E group \in 1..(NumConfiguredGroups + 1), written \in BOOLEAN :
          IF group \notin ConfiguredGroups
          THEN UNCHANGED <<base_internal, group_state, state_file, last_switch>>
          ELSE /\ base_internal' = IF group \in {1, 2} THEN group ELSE base_internal
               /\ group_state' = [g \in DOMAIN group_state |->
                     IF g < group THEN mark_group_full(group_state, g)[g]
                     ELSE IF g = group THEN reset(group_state, g)[g]
                     ELSE group_state[g]]
               /\ state_file' = IF written THEN write_active_group_file(group)
                                           ELSE state_file
               /\ last_switch' = [group |-> group, by |-> "storage_group_service"]
    /\ restarted' = FALSE
    /\ UNCHANGED <<base_group, mr_group, auto_switch>>
    /\ PolicyFrame

\* StorageGroupService.record_upload_size for one upload
RecordUploadSize ==
    /\ LET group == tracker_get_active_upload_group
       IN  /\ group_state[group].uploaded_bytes < MaxUploaded
           /\ group_state' = record_upload(group_state, 1, group)
    /\ last_switch' = NoSwitch
    /\ restarted' = FALSE
    /\ UNCHANGED <<base_internal, base_group, mr_group, state_file, auto_switch>>
    /\ PolicyFrame

\* StorageGroupService.handle_quota_exceeded for a remote of group n
HandleQuotaExceeded ==
    /\ \E n \in ConfiguredGroups :
          group_state' = mark_group_full(group_state, n)
    /\ last_switch' = NoSwitch
    /\ restarted' = FALSE
    /\ UNCHANGED <<base_internal, base_group, mr_group, state_file, auto_switch>>
    /\ PolicyFrame

\* the process restarts: the modules are loaded anew, the tracker is built
\* from the state file
Restart ==
    /\ base_internal' = 1
    /\ base_group' = 1
    /\ mr_group' = 1
    /\ group_state' = init_groups(state_file)
    /\ restarted' = TRUE
    /\ UNCHANGED <<state_file, auto_switch, last_switch>>
    /\ PolicyFrame

PolicyNext ==
    \/ ManualSwitchGroup
    \/ SwitchUploadGroup
    \/ RecordUploadSize
    \/ HandleQuotaExceeded
    \/ Restart

(***************************************************************************)
(* Bulk ingest: BulkUploadService of bulk_upload_service.py with the       *)
(* progress store.  bulk_upload_chapters has no await, so one job runs     *)
(* from start to return with no other request handled in between; in       *)
(* parallel mode its chapters run on executor threads in any order.        *)
(***************************************************************************)
JobIds == 1..MaxJobs

\* the file counts of the chapters of an archive, chapter_main = position
ChapterLists ==
    UNION { [1..n -> 1..MaxFiles] : n \in 1..MaxChapters }

NoEntry ==
    [present |-> FALSE, status |-> "none", progress |-> 0,
     total_chapters |-> 0, completed_chapters |-> 0, failed_chapters |-> 0,
     total_files |-> 0, uploaded_files |-> 0]

\* int((uploaded_files / total_files) * 100)
progress_percent_no_total(uploaded_files, total_files) == uploaded_files * 100

progress_percent(uploaded_files, total_files) ==
    (uploaded_files * 100) \div total_files

\* BulkUploadService.init_progress
init_progress(total_chapters, total_files) ==
    [present |-> TRUE, status |-> "processing", progress |-> 0,
     total_chapters |-> total_chapters, completed_chapters |-> 0,
     failed_chapters |-> 0, total_files |-> total_files, uploaded_files |-> 0]

\* BulkUploadService.update_progress with the keywords status and, when it
\* is not None, progress: the dict is updated, then progress is computed
\* again from the counters
update_progress(entry, new_status, new_progress) ==
    IF ~entry.present
    THEN entry
    ELSE LET updated == [entry EXCEPT
                            !.status = new_status,
                            !.progress = IF new_progress # None
                                         THEN new_progress ELSE @]
         IN  [updated EXCEPT
                !.progress = IF updated.total_files > 0
                             THEN progress_percent(updated.uploaded_files,
                                                   updated.total_files)
                             ELSE 0]

increment_uploaded_files_assign(entry, count) ==
    IF ~entry.present
    THEN entry
    ELSE [entry EXCEPT !.uploaded_files = count]

\* BulkUploadService.increment_uploaded_files
increment_uploaded_files(entry, count) ==
    IF ~entry.present
    THEN entry
    ELSE [entry EXCEPT
            !.uploaded_files = @ + count,
            !.progress = IF entry.total_files > 0
                         THEN progress_percent(entry.uploaded_files + count,
                                               entry.total_files)
                         ELSE @]

\* BulkUploadService.increment_completed_chapters
increment_completed_chapters(entry, count) ==
    IF ~entry.present
    THEN entry
    ELSE [entry EXCEPT !.completed_chapters = @ + count]

\* BulkUploadService.increment_failed_chapters
increment_failed_chapters(entry, count) ==
    IF ~entry.present
    THEN entry
    ELSE [entry EXCEPT !.failed_chapters = @ + count]

\* _get_active_upload_group_and_prefix: the group of MultiRemoteService and
\* the prefix written in front of the paths of the catalog
get_active_upload_group_and_prefix ==
    LET group == multi_remote_get_active_upload_group
    IN  [group |-> group,
         prefix |-> IF group = 2 THEN GROUP2_PATH_PREFIX ELSE <<>>]

\* _get_rclone_for_group: the remote of the group that gets the upload, the
\* primary of group 2 or else the default remote
rclone_for_group(group) ==
    IF group = 2 /\ NumRemotes2 > 0
    THEN [group |-> 2, remote |-> 1]
    ELSE [group |-> 1, remote |-> 1]

\* the name the staged file number idx is given: f"{idx:03d}"
page_filename(idx) ==
    IF idx < 10 THEN <<"0", "0">> \o IntToStr(idx)
    ELSE IF idx < 100 THEN <<"0">> \o IntToStr(idx)
    ELSE IntToStr(idx)

\* chapter_folder of the chapter with number chapter_main, under the folder
\* of the manga
chapter_folder(chapter_main) == <<"m", "/", "c">> \o IntToStr(chapter_main)

\* the Page rows of one chapter: gdrive_file_id is the prefix and the path
page_rows_of(chapter_main, file_count, group, prefix) ==
    { [chapter_main |-> chapter_main,
       page_order |-> idx,
       storage_group |-> group,
       gdrive_path_clean |-> chapter_folder(chapter_main) \o <<"/">>
                                \o page_filename(idx),
       gdrive_file_id |-> prefix \o chapter_folder(chapter_main) \o <<"/">>
                                \o page_filename(idx)] : idx \in 1..file_count }

\* what one call of _upload_single_chapter can come to: the batch copy
\* works and the rows are committed, the copy fails with a quota error of
\* the remote, it fails otherwise, or the copy works and the commit fails
ChapterOutcomes == {"success", "quota", "error", "db_error"}

NoJob ==
    [pc |-> "none", upload_id |-> 0, kind |-> "none", parallel |-> FALSE,
     first |-> 1, chapters |-> <<>>, work |-> <<>>,
     active_group |-> 1, path_prefix |-> <<>>, stopped_at |-> 0,
     conflict_strategy |-> "skip"]

\* an entry of resume_token_store: chapters is its "remaining_chapters"
\* (empty when the entry has no such key), completed_results the length of
\* its "completed_results" (0 when it has no such key), partial_results
\* the length of its "partial_results", upload_id the job that made it
NoToken == [present |-> FALSE, first |-> 1, chapters |-> <<>>,
            active_group |-> 1, path_prefix |-> <<>>,
            completed_results |-> 0, partial_results |-> 0, upload_id |-> 0]

\* the length of the list results of the running job
ResultsLen ==
    Cardinality({j \in 1..Len(job.work) : job.work[j] \in {"recorded", "skipped"}})

\* create_upload_id: an id no job had before
NextUploadId == job.upload_id + 1

IngestInit ==
    /\ upload_progress_store = [id \in JobIds |-> NoEntry]
    /\ job = NoJob
    /\ resume_token_store = NoToken
    /\ chapter_results = {}
    /\ page_rows = {}

\* no ingest runs
IngestIdle == IngestInit

SumFiles(chapters) ==
    LET RECURSIVE Sum(_)
        Sum(i) == IF i = 0 THEN 0 ELSE chapters[i] + Sum(i - 1)
    IN  Sum(Len(chapters))

\* the chapters of the job that no call of _upload_single_chapter took yet
Pending(i) == job.work[i] = "pending"

\* no job runs and no executor thread of the last job has a chapter left
\* (the next request is taken up after that)
NoJobRuns ==
    /\ job.pc # "running"
    /\ \A i \in 1..Len(job.work) : ~Pending(i)

\* chapter i is the next one of the loop: every chapter before it is done
\* with (sequential), or it was submitted to the executor (parallel)
CanUpload(i) ==
    /\ i \in 1..Len(job.chapters)
    /\ Pending(i)
    /\ job.parallel \/ \A j \in 1..(i - 1) : job.work[j] \in {"recorded", "skipped"}

\* bulk_upload_chapters up to init_progress: the active group and the
\* prefix are read once, the entry of the new upload id is made
BulkUploadStart ==
    /\ NoJobRuns
    /\ NextUploadId \in JobIds
    /\ \E chapters \in ChapterLists, parallel \in BOOLEAN,
          conflict_strategy \in {"skip", "error"} :
          LET active == get_active_upload_group_and_prefix
          IN  /\ job' = [pc |-> "running", upload_id |-> NextUploadId,
                         kind |-> "bulk",
                         parallel |-> parallel /\ Len(chapters) > 1,
                         first |-> 1, chapters |-> chapters,
                         work |-> [i \in 1..Len(chapters) |-> "pending"],
                         active_group |-> active.group,
                         path_prefix |-> active.prefix, stopped_at |-> 0,
                         conflict_strategy |-> conflict_strategy]
              /\ upload_progress_store' =
                    [upload_progress_store EXCEPT ![NextUploadId] =
                        init_progress(Len(chapters), SumFiles(chapters))]
    /\ chapter_results' = {}
    /\ UNCHANGED <<resume_token_store, page_rows>>
    /\ IngestFrame

\* resume_upload up to init_progress: the chapters, the group and the
\* prefix come from the token, which is deleted
ResumeUpload ==
    /\ NoJobRuns
    /\ NextUploadId \in JobIds
    /\ resume_token_store.present
    /\ resume_token_store.chapters # <<>>
    /\ job' = [pc |-> "running", upload_id |-> NextUploadId,
               kind |-> "resume", parallel |-> FALSE,
               first |-> resume_token_store.first,
               chapters |-> resume_token_store.chapters,
               work |-> [i \in 1..Len(resume_token_store.chapters) |-> "pending"],
               active_group |-> resume_token_store.active_group,
               path_prefix |-> resume_token_store.path_prefix, stopped_at |-> 0,
               conflict_strategy |-> "skip"]
    /\ upload_progress_store' =
          [upload_progress_store EXCEPT ![NextUploadId] =
              init_progress(Len(resume_token_store.chapters),
                            SumFiles(resume_token_store.chapters))]
    /\ resume_token_store' = NoToken
    /\ chapter_results' = {}
    /\ UNCHANGED page_rows
    /\ IngestFrame

\* _upload_single_chapter for chapter i of the job: the batch copy to the
\* remote of the group the job started with; when the copy worked the
\* files are counted, and when the commit worked too the rows are there.
\* No outcome touches a RemoteStatus or the quota tracker.
UploadSingleChapter(i) ==
    /\ job.pc = "running" \/ (job.pc = "returned" /\ job.parallel)
    /\ CanUpload(i)
    /\ \E outcome \in ChapterOutcomes :
          LET chapter_main == job.first + i - 1
              file_count == job.chapters[i]
              target == rclone_for_group(job.active_group)
          IN  /\ job' = [job EXCEPT !.work[i] =
                            IF job.kind = "resume" THEN "recorded" ELSE outcome]
              /\ upload_progress_store' =
                    IF outcome \in {"success", "db_error"}
                    THEN [upload_progress_store EXCEPT ![job.upload_id] =
                            increment_uploaded_files(@, file_count)]
                    ELSE upload_progress_store
              /\ page_rows' =
                    IF outcome = "success"
                    THEN page_rows \cup page_rows_of(chapter_main, file_count,
                            job.active_group, job.path_prefix)
                    ELSE page_rows
              /\ chapter_results' = chapter_results \cup
                    {[upload_id |-> job.upload_id,
                     seq |-> Cardinality(chapter_results) + 1,
                     chapter_main |-> chapter_main,
                     outcome |-> outcome,
                     storage_group |-> job.active_group,
                     remote_group |-> target.group,
                     remote |-> target.remote,
                     active_group_then |-> multi_remote_get_active_upload_group]}
    /\ UNCHANGED resume_token_store
    /\ IngestFrame

\* bulk_upload_chapters takes the result of chapter i and counts the
\* chapter as completed or as failed
RecordChapterResult(i) ==
    /\ job.pc = "running"
    /\ job.kind = "bulk"
    /\ i \in 1..Len(job.chapters)
    /\ job.work[i] \in ChapterOutcomes
    /\ upload_progress_store' =
          [upload_progress_store EXCEPT ![job.upload_id] =
              IF job.work[i] = "success"
              THEN increment_completed_chapters(@, 1)
              ELSE increment_failed_chapters(@, 1)]
    /\ job' = [job EXCEPT !.work[i] = "recorded"]
    /\ UNCHANGED <<resume_token_store, chapter_results, page_rows>>
    /\ IngestFrame

\* check_chapter_conflict finds chapter i in the catalog and the strategy
\* is skip
SkipExistingChapter(i) ==
    /\ job.pc = "running"
    /\ job.kind = "bulk"
    /\ job.conflict_strategy = "skip"
    /\ CanUpload(i)
    /\ job' = [job EXCEPT !.work[i] = "skipped"]
    /\ UNCHANGED <<upload_progress_store, resume_token_store, chapter_results,
                   page_rows>>
    /\ IngestFrame

\* check_chapter_conflict finds chapter i in the catalog and the strategy
\* is error: the sequential loop leaves a resume token for the chapters
\* from i on and returns; the parallel loop raises before it collected a
\* result, the handler of the exception sets the status to failed, and the
\* chapters submitted before i still run on their threads
ConflictError(i) ==
    /\ job.pc = "running"
    /\ job.kind = "bulk"
    /\ job.conflict_strategy = "error"
    /\ i \in 1..Len(job.chapters)
    /\ \A j \in i..Len(job.chapters) : Pending(j)
    /\ IF job.parallel
       THEN /\ \A j \in 1..(i - 1) : job.work[j] # "recorded"
            /\ upload_progress_store' =
                  [upload_progress_store EXCEPT ![job.upload_id] =
                      update_progress(@, "failed", None)]
            /\ job' = [job EXCEPT
                         !.pc = "returned", !.stopped_at = i,
                         !.work = [j \in 1..Len(job.chapters) |->
                                     IF j >= i THEN "cancelled" ELSE job.work[j]]]
            /\ resume_token_store' =
                  IF ResultsLen > 0
                  THEN [NoToken EXCEPT !.present = TRUE,
                                       !.active_group = job.active_group,
                                       !.path_prefix = job.path_prefix,
                                       !.partial_results = ResultsLen,
                                       !.upload_id = job.upload_id]
                  ELSE resume_token_store
       ELSE /\ \A j \in 1..(i - 1) : job.work[j] \in {"recorded", "skipped"}
            /\ resume_token_store' =
                  [present |-> TRUE, first |-> job.first + i - 1,
                   chapters |-> SubSeq(job.chapters, i, Len(job.chapters)),
                   active_group |-> job.active_group,
                   path_prefix |-> job.path_prefix,
                   completed_results |-> ResultsLen, partial_results |-> 0,
                   upload_id |-> job.upload_id]
            /\ job' = [job EXCEPT
                         !.pc = "returned", !.stopped_at = i,
                         !.work = [j \in 1..Len(job.chapters) |->
                                     IF j >= i THEN "cancelled" ELSE job.work[j]]]
            /\ UNCHANGED upload_progress_store
    /\ UNCHANGED <<chapter_results, page_rows>>
    /\ IngestFrame

\* the loop is over: bulk_upload_chapters calls update_progress with
\* status completed and progress 100 and returns; resume_upload returns
JobReturns ==
    /\ job.pc = "running"
    /\ \A i \in 1..Len(job.chapters) : job.work[i] \in {"recorded", "skipped"}
    /\ upload_progress_store' =
          IF job.kind = "bulk"
          THEN [upload_progress_store EXCEPT ![job.upload_id] =
                  update_progress(@, "completed", 100)]
          ELSE upload_progress_store
    /\ job' = [job EXCEPT !.pc = "returned"]
    /\ UNCHANGED <<resume_token_store, chapter_results, page_rows>>
    /\ IngestFrame

\* cleanup_expired_progress, called when a BulkUploadService is built: an
\* entry older than PROGRESS_EXPIRY_HOURS is deleted
CleanupExpiredProgress ==
    /\ NoJobRuns
    /\ \E id \in JobIds :
          /\ upload_progress_store[id].present
          /\ upload_progress_store' = [upload_progress_store EXCEPT ![id] = NoEntry]
    /\ UNCHANGED <<job, resume_token_store, chapter_results, page_rows>>
    /\ IngestFrame

\* an admin switches the active upload group between two jobs
SwitchBetweenJobs ==
    /\ NoJobRuns
    /\ ManualSwitchGroup

IngestNext ==
    \/ BulkUploadStart
    \/ ResumeUpload
    \/ \E i \in 1..MaxChapters : UploadSingleChapter(i)
    \/ \E i \in 1..MaxChapters : RecordChapterResult(i)
    \/ \E i \in 1..MaxChapters : SkipExistingChapter(i)
    \/ \E i \in 1..MaxChapters : ConflictError(i)
    \/ JobReturns
    \/ CleanupExpiredProgress
    \/ SwitchBetweenJobs

(***************************************************************************)
(* Subprocess environment: every place of the code that starts the rclone  *)
(* executable, with the environment the child process is given.            *)
(***************************************************************************)
\* names of environment variables the parent process can have
EnvNames ==
    { <<"P", "A", "T", "H">>,
      <<"R", "C", "L", "O", "N", "E">>,
      <<"R", "C", "L", "O", "N", "E", "_", "T", "I", "M", "E", "O", "U", "T">>,
      <<"R", "C", "L", "O", "N", "E", "_", "C", "O", "N", "F", "I", "G">> }

ReservedPrefix == <<"R", "C", "L", "O", "N", "E", "_">>

clean_env_for_rclone_copy(environ) == environ

\* _clean_env_for_rclone: a copy of os.environ without the RCLONE_ keys
clean_env_for_rclone(environ) ==
    {key \in environ : ~StartsWith(key, ReservedPrefix)}

\* the places that start the executable with env=clean_env
ScrubbedSites == {"_run_command", "_start_serve_daemon_once", "upload_folder_bulk"}

\* the places that start it with no env argument: the child inherits
\* os.environ
InheritingSites == {"_validate_rclone_installation", "generate_16_9_thumbnail"}

EnvInit ==
    /\ os_environ \in SUBSET EnvNames
    /\ child_env = {}
    /\ spawn_site = "none"

EnvIdle ==
    /\ os_environ = {}
    /\ child_env = {}
    /\ spawn_site = "none"

\* the operator or the host changes one variable of the parent
SetEnviron ==
    /\ \E key \in EnvNames :
          os_environ' = IF key \in os_environ THEN os_environ \ {key}
                                               ELSE os_environ \cup {key}
    /\ UNCHANGED <<child_env, spawn_site>>
    /\ EnvFrame

\* RcloneService._run_command, _start_serve_daemon_once and
\* upload_folder_bulk: subprocess.run or Popen with env=clean_env
SpawnWithCleanEnv ==
    /\ \E site \in ScrubbedSites :
          /\ spawn_site' = site
          /\ child_env' = clean_env_for_rclone(os_environ)
    /\ UNCHANGED os_environ
    /\ EnvFrame

\* RcloneService._validate_rclone_installation (rclone version) and
\* ThumbnailService.generate_16_9_thumbnail (rclone rcat): subprocess.run
\* without env
SpawnWithInheritedEnv ==
    /\ \E site \in InheritingSites :
          /\ spawn_site' = site
          /\ child_env' = os_environ
    /\ UNCHANGED os_environ
    /\ EnvFrame

EnvNext ==
    \/ SetEnviron
    \/ SpawnWithCleanEnv
    \/ SpawnWithInheritedEnv

(***************************************************************************)
(* Serve daemons: RcloneService starts one rclone serve http child per      *)
(* remote, watches it from a background thread and stops the children on   *)
(* clear_cache and on shutdown.                                            *)
(***************************************************************************)
DaemonRemotes == 1..NumDaemonRemotes

\* no entry of _serve_daemons; in an entry, process is the child and url
\* the child whose address the entry has as "url" (0 for None)
NoDaemon == [present |-> FALSE, process |-> 0, url |-> 0]

\* process.poll() is None
Alive(p) == processes[p].alive

\* the child p runs and answers HTTP requests at its address
Ready(p) == processes[p].alive /\ processes[p].ready

\* the children of the remote r that are alive
LiveDaemons(r) ==
    {p \in 1..Len(processes) : processes[p].remote = r /\ Alive(p)}

\* the children _shutdown_all_daemons_sync sends SIGTERM to
Registered ==
    {serve_daemons[r].process : r \in {x \in DaemonRemotes : serve_daemons[x].present}}

\* _shutdown_all_daemons_sync: every registered child gets terminate() and
\* wait(timeout=3); TimeoutExpired is caught with the other exceptions and
\* logged; the registry is cleared.  slow is the set of the children that
\* do not exit within the three seconds
shutdown_all_daemons_sync(slow) ==
    /\ processes' = [p \in 1..Len(processes) |->
                       IF p \in Registered /\ p \notin slow
                       THEN [processes[p] EXCEPT !.alive = FALSE]
                       ELSE processes[p]]
    /\ serve_daemons' = [r \in DaemonRemotes |-> NoDaemon]

DaemonInit ==
    /\ serve_daemons = [r \in DaemonRemotes |-> NoDaemon]
    /\ processes = <<>>
    /\ instances = {}
    /\ health_threads = {}
    /\ lifespan = "running"

\* no daemon is started
DaemonIdle == DaemonInit

\* _start_serve_daemon_once, the block under _serve_lock: a live registered
\* child is left alone; otherwise the entry of a dead one is deleted and a
\* child is started with Popen, registered without a URL, and the
\* health-check thread is started; when Popen raises, nothing is registered
start_serve_daemon_once(r) ==
    IF serve_daemons[r].present /\ Alive(serve_daemons[r].process)
    THEN UNCHANGED <<serve_daemons, processes, health_threads>>
    ELSE \/ /\ Len(processes) < MaxProcesses
            /\ processes' = Append(processes,
                                  [remote |-> r, alive |-> TRUE, ready |-> FALSE])
            /\ serve_daemons' = [serve_daemons EXCEPT ![r] =
                  [present |-> TRUE, process |-> Len(processes) + 1, url |-> 0]]
            /\ health_threads' = health_threads \cup
                  {[remote |-> r, started |-> Len(processes) + 1, process |-> 0]}
         \/ /\ serve_daemons' = [serve_daemons EXCEPT ![r] = NoDaemon]
            /\ UNCHANGED <<processes, health_threads>>

\* RcloneService(remote_name) for a remote without a cached instance:
\* __new__ caches the instance and __init__ calls _start_serve_daemon_once,
\* which leaves a live registered child alone, deletes the entry of a dead
\* one, and starts a child with Popen, registers it without a URL and
\* starts the health-check thread; when Popen raises, nothing is registered
NewRcloneService(r) ==
    /\ lifespan = "running"
    /\ r \notin instances
    /\ instances' = instances \cup {r}
    /\ start_serve_daemon_once(r)
    /\ UNCHANGED lifespan
    /\ DaemonFrame

\* _background_health_check, top of the loop: under _serve_lock the thread
\* reads the entry of its remote; without an entry it ends, otherwise it
\* keeps the process of the entry and releases the lock
HealthCheckReadEntry(t) ==
    /\ lifespan = "running"
    /\ t \in health_threads
    /\ t.process = 0
    /\ health_threads' =
          IF serve_daemons[t.remote].present
          THEN (health_threads \ {t}) \cup
                  {[t EXCEPT !.process = serve_daemons[t.remote].process]}
          ELSE health_threads \ {t}
    /\ UNCHANGED <<serve_daemons, processes, instances, lifespan>>
    /\ DaemonFrame

\* _background_health_check, rest of the loop: when the process it kept has
\* exited, the thread pops the entry of the remote and ends; when the
\* address of the child it was started for answers, it writes that URL
\* into the entry of the remote, if there is one, and ends; otherwise it
\* sleeps and loops, or ends at the deadline (the child is left running)
HealthCheckPoll(t) ==
    /\ lifespan = "running"
    /\ t \in health_threads
    /\ t.process # 0
    /\ IF ~Alive(t.process)
       THEN /\ serve_daemons' = [serve_daemons EXCEPT ![t.remote] = NoDaemon]
            /\ health_threads' = health_threads \ {t}
       ELSE IF Ready(t.started)
       THEN /\ serve_daemons' =
                  IF serve_daemons[t.remote].present
                  THEN [serve_daemons EXCEPT ![t.remote].url = t.started]
                  ELSE serve_daemons
            /\ health_threads' = health_threads \ {t}
       ELSE \/ /\ health_threads' =
                     (health_threads \ {t}) \cup {[t EXCEPT !.process = 0]}
               /\ UNCHANGED serve_daemons
            \/ /\ health_threads' = health_threads \ {t}
               /\ UNCHANGED serve_daemons
    /\ UNCHANGED <<processes, instances, lifespan>>
    /\ DaemonFrame

\* a child process has bound its port and begins to answer HTTP requests
ProcessBecomesReady(p) ==
    /\ p \in 1..Len(processes)
    /\ Alive(p)
    /\ ~processes[p].ready
    /\ processes' = [processes EXCEPT ![p].ready = TRUE]
    /\ UNCHANGED <<serve_daemons, instances, health_threads, lifespan>>
    /\ DaemonFrame

\* a child process exits by itself: it fails, or it handles a late SIGTERM
ProcessExits(p) ==
    /\ p \in 1..Len(processes)
    /\ Alive(p)
    /\ processes' = [processes EXCEPT ![p].alive = FALSE]
    /\ UNCHANGED <<serve_daemons, instances, health_threads, lifespan>>
    /\ DaemonFrame

\* clear_cache(remote_name): _stop_serve_daemon terminates the registered
\* child, waits five seconds and kills it after that, and deletes the
\* entry; the instance is dropped from the cache
ClearCacheRemote(r) ==
    /\ lifespan = "running"
    /\ r \in instances
    /\ processes' = IF serve_daemons[r].present
                    THEN [processes EXCEPT ![serve_daemons[r].process].alive = FALSE]
                    ELSE processes
    /\ serve_daemons' = [serve_daemons EXCEPT ![r] = NoDaemon]
    /\ instances' = instances \ {r}
    /\ UNCHANGED <<health_threads, lifespan>>
    /\ DaemonFrame

\* clear_cache(): _shutdown_all_daemons_sync, and every instance is dropped
ClearCacheAll ==
    /\ lifespan = "running"
    /\ \E slow \in SUBSET {p \in Registered : Alive(p)} :
          shutdown_all_daemons_sync(slow)
    /\ instances' = {}
    /\ UNCHANGED <<health_threads, lifespan>>
    /\ DaemonFrame

\* the shutdown part of lifespan (and the atexit hook and the signal
\* handler): _shutdown_all_daemons_sync, after which the application is
\* down and its threads are gone
Shutdown ==
    /\ lifespan = "running"
    /\ \E slow \in SUBSET {p \in Registered : Alive(p)} :
          shutdown_all_daemons_sync(slow)
    /\ lifespan' = "shutdown"
    /\ health_threads' = {}
    /\ UNCHANGED instances
    /\ DaemonFrame

DaemonNext ==
    \/ \E r \in DaemonRemotes : NewRcloneService(r)
    \/ \E t \in health_threads : HealthCheckReadEntry(t)
    \/ \E t \in health_threads : HealthCheckPoll(t)
    \/ \E p \in 1..MaxProcesses : ProcessBecomesReady(p)
    \/ \E p \in 1..MaxProcesses : ProcessExits(p)
    \/ \E r \in DaemonRemotes : ClearCacheRemote(r)
    \/ ClearCacheAll
    \/ Shutdown

(***************************************************************************)
(* Termination signals.  The handler of SIGTERM and SIGINT is a Python     *)
(* function: it runs on the main thread, on top of whatever the main       *)
(* thread was executing, which goes on only when the handler has returned. *)
(* _serve_lock is a threading.Lock, which its holder cannot take again.    *)
(***************************************************************************)
SignalIdle ==
    /\ serve_lock = "free"
    /\ main_thread = 0
    /\ signal_received = FALSE

\* the main thread builds RcloneService(r) and enters `with self._serve_lock`
\* of _start_serve_daemon_once
ServeLockEnter(r) ==
    /\ lifespan = "running"
    /\ ~signal_received
    /\ main_thread = 0
    /\ serve_lock = "free"
    /\ r \notin instances
    /\ serve_lock' = "main"
    /\ main_thread' = r
    /\ UNCHANGED <<signal_received, daemonVars>>
    /\ SignalFrame

\* the main thread runs the block under the lock and leaves it
ServeLockLeave ==
    /\ main_thread # 0
    /\ ~signal_received
    /\ instances' = instances \cup {main_thread}
    /\ start_serve_daemon_once(main_thread)
    /\ serve_lock' = "free"
    /\ main_thread' = 0
    /\ UNCHANGED <<lifespan, signal_received>>
    /\ SignalFrame

\* SIGTERM or SIGINT is delivered and _signal_handler begins
SignalArrives ==
    /\ lifespan = "running"
    /\ ~signal_received
    /\ signal_received' = TRUE
    /\ UNCHANGED <<serve_lock, main_thread, daemonVars>>
    /\ SignalFrame

\* _signal_handler: _shutdown_all_daemons_sync takes _serve_lock, stops the
\* daemons and releases it; the signal is raised again with the default
\* disposition
SignalHandler ==
    /\ signal_received
    /\ serve_lock = "free"
    /\ Shutdown

SignalNext ==
    \/ \E r \in DaemonRemotes : ServeLockEnter(r)
    \/ ServeLockLeave
    \/ \E t \in health_threads : serve_lock = "free" /\ HealthCheckReadEntry(t)
    \/ \E t \in health_threads : serve_lock = "free" /\ HealthCheckPoll(t)
    \/ \E p \in 1..MaxProcesses : ProcessBecomesReady(p)
    \/ \E p \in 1..MaxProcesses : ProcessExits(p)
    \/ SignalArrives
    \/ SignalHandler

(***************************************************************************)
(* Ports of the serve daemons in the forked workers: each worker process   *)
(* has its own RcloneService class state and its WORKER_INDEX.             *)
(***************************************************************************)
\* settings.RCLONE_SERVE_HTTP_PORT_START
RCLONE_SERVE_HTTP_PORT_START == 8180

\* os.environ.get("WORKER_PORT_SLOTS", "20")
WORKER_PORT_SLOTS == 20

\* the values of WORKER_INDEX
Workers == 0..(NumWorkers - 1)

\* port = PORT_START + worker_index * WORKER_PORT_SLOTS + _serve_port_counter
allocate_port(worker_index, counter) ==
    RCLONE_SERVE_HTTP_PORT_START + worker_index * WORKER_PORT_SLOTS + counter

PortInit ==
    /\ serve_port_counter = [w \in Workers |-> 0]
    /\ allocated_ports = [w \in Workers |-> {}]

PortIdle == PortInit

\* _start_serve_daemon_once in the worker w, for a remote that has no live
\* daemon (a first start, or a start after the daemon died or was stopped):
\* the port is computed and the counter of the class is incremented
AllocatePort(w) ==
    /\ serve_port_counter[w] < MaxStarts
    /\ allocated_ports' = [allocated_ports EXCEPT ![w] =
          @ \cup {allocate_port(w, serve_port_counter[w])}]
    /\ serve_port_counter' = [serve_port_counter EXCEPT ![w] = @ + 1]
    /\ PortFrame

PortNext == \E w \in Workers : AllocatePort(w)

(***************************************************************************)
(* Expiry of the progress entries and the resume tokens.  Time is counted  *)
(* in hours.                                                               *)
(***************************************************************************)
PROGRESS_EXPIRY_HOURS == 24
TOKEN_EXPIRY_HOURS == 48

\* the upload ids and the resume tokens of the stores
TokenIds == 1..MaxJobs

\* cleanup_expired_progress and cleanup_expired_tokens: the entries whose
\* time stamp is more than expiry_hours before clock are deleted
cleanup_expired(stamps, clock, expiry_hours) ==
    [k \in DOMAIN stamps |->
        IF stamps[k] # None /\ clock - stamps[k] > expiry_hours
        THEN None
        ELSE stamps[k]]

SweepInit ==
    /\ wall_clock = 0
    /\ progress_started_at = [id \in JobIds |-> None]
    /\ token_created_at = [token \in TokenIds |-> None]

SweepIdle == SweepInit

\* a bulk upload request: BulkUploadService(db) runs both cleanups in its
\* __init__; then the job makes its progress entry with init_progress and,
\* when it stops at a conflict or fails, its resume token
BulkUploadRequest ==
    /\ LET progress == cleanup_expired(progress_started_at, wall_clock,
                                       PROGRESS_EXPIRY_HOURS)
           tokens == cleanup_expired(token_created_at, wall_clock,
                                     TOKEN_EXPIRY_HOURS)
       IN  \E id \in JobIds, leaves_token \in BOOLEAN :
              /\ progress_started_at[id] = None
              /\ progress_started_at' = [progress EXCEPT ![id] = wall_clock]
              /\ token_created_at' =
                    IF leaves_token /\ token_created_at[id] = None
                    THEN [tokens EXCEPT ![id] = wall_clock]
                    ELSE tokens
    /\ UNCHANGED wall_clock
    /\ SweepFrame

\* time passes and no request for a bulk upload or a resume comes in
HoursPass ==
    /\ \E d \in {1, PROGRESS_EXPIRY_HOURS} :
          /\ wall_clock + d <= MaxHours
          /\ wall_clock' = wall_clock + d
    /\ UNCHANGED <<progress_started_at, token_created_at>>
    /\ SweepFrame

SweepNext ==
    \/ BulkUploadRequest
    \/ HoursPass

(***************************************************************************)
(* POST /resume/{resume_token}: the endpoint and resume_upload, statement  *)
(* by statement.  Both are coroutines of the one event loop and neither    *)
(* has an await before its return, so a request that has begun is not      *)
(* interleaved with another one.  The store holds one token, made by the   *)
(* job with the upload id 1; a request carries that token or another       *)
(* value; the progress entry of the job of a request has the number of     *)
(* the request as its id.                                                  *)
(***************************************************************************)
Requests == 1..NumRequests

\* the token of the store, and a value that is no key of the store
TokenValues == {1, 2}

IdleRequest == [pc |-> "idle", token |-> 0, token_data |-> NoToken]

ResumeIdle == resume_requests = [r \in Requests |-> IdleRequest]

\* a job stopped at a conflict or failed and left its token; the token of
\* a failed parallel job has no remaining chapters
ResumeInit ==
    /\ ResumeIdle
    /\ \E chapters \in ChapterLists \cup {<<>>}, first \in 1..2 :
          resume_token_store =
             [NoToken EXCEPT !.present = TRUE, !.upload_id = 1,
                             !.first = first, !.chapters = chapters]
    /\ upload_progress_store = [id \in JobIds |-> NoEntry]
    /\ job = NoJob
    /\ chapter_results = {}
    /\ page_rows = {}

\* resume_token_store.get(resume_token)
token_store_get(resume_token) ==
    IF resume_token_store.present /\ resume_token_store.upload_id = resume_token
    THEN resume_token_store
    ELSE NoToken

EventLoopFree_threads(r) == TRUE

\* the event loop takes up the request r: no other handler is between its
\* first statement and its return
EventLoopFree(r) ==
    \A q \in Requests \ {r} : resume_requests[q].pc \notin {"got", "deleted"}

\* the endpoint answers 404 for a token that is not in the store; otherwise
\* resume_upload reads token_data under resume_token_lock
ResumeGet(r) ==
    /\ resume_requests[r].pc = "idle"
    /\ EventLoopFree(r)
    /\ \E resume_token \in TokenValues :
          resume_requests' = [resume_requests EXCEPT ![r] =
             IF token_store_get(resume_token).present
             THEN [pc |-> "got", token |-> resume_token,
                   token_data |-> token_store_get(resume_token)]
             ELSE [pc |-> "not_found", token |-> resume_token,
                   token_data |-> NoToken]]
    /\ UNCHANGED ingestVars
    /\ ResumeFrame

\* resume_upload: without remaining chapters it returns an error and the
\* token stays; otherwise the token is deleted under resume_token_lock, if
\* it is still in the store
ResumeDelete(r) ==
    /\ resume_requests[r].pc = "got"
    /\ IF resume_requests[r].token_data.chapters = <<>>
       THEN /\ resume_requests' = [resume_requests EXCEPT ![r].pc = "nothing_to_resume"]
            /\ UNCHANGED resume_token_store
       ELSE /\ resume_requests' = [resume_requests EXCEPT ![r].pc = "deleted"]
            /\ resume_token_store' =
                  IF token_store_get(resume_requests[r].token).present
                  THEN NoToken
                  ELSE resume_token_store
    /\ UNCHANGED <<upload_progress_store, job, chapter_results, page_rows>>
    /\ ResumeFrame

\* resume_upload: init_progress and _upload_single_chapter for every
\* remaining chapter of token_data, then the return
ResumeProcess(r) ==
    /\ resume_requests[r].pc = "deleted"
    /\ LET token_data == resume_requests[r].token_data
           chapters == token_data.chapters
       IN  \E outcome \in [1..Len(chapters) -> ChapterOutcomes] :
              LET counted == [i \in 1..Len(chapters) |->
                                IF outcome[i] \in {"success", "db_error"}
                                THEN chapters[i] ELSE 0]
              IN  /\ upload_progress_store' =
                        [upload_progress_store EXCEPT ![r] =
                            increment_uploaded_files(
                               init_progress(Len(chapters), SumFiles(chapters)),
                               SumFiles(counted))]
                  /\ page_rows' = page_rows \cup UNION
                        { page_rows_of(token_data.first + i - 1, chapters[i],
                                       token_data.active_group,
                                       token_data.path_prefix) :
                          i \in {j \in 1..Len(chapters) : outcome[j] = "success"} }
    /\ resume_requests' = [resume_requests EXCEPT ![r].pc = "done"]
    /\ UNCHANGED <<job, resume_token_store, chapter_results>>
    /\ ResumeFrame

ResumeNext ==
    \/ \E r \in Requests : ResumeGet(r)
    \/ \E r \in Requests : ResumeDelete(r)
    \/ \E r \in Requests : ResumeProcess(r)

(***************************************************************************)
(* Recovery of unhealthy remotes: get_next_remote as one step under        *)
(* self.lock, called again and again while time passes.                    *)
(***************************************************************************)
\* a RemoteStatus after UnhealthyErrorCount failed requests in a row, the
\* last one at time 0
FailedStatus ==
    [RemoteStatus EXCEPT !.is_healthy = FALSE,
                         !.error_count = UnhealthyErrorCount,
                         !.last_error_time = 0,
                         !.total_requests = UnhealthyErrorCount,
                         !.failed_requests = UnhealthyErrorCount]

\* every remote is new, has failed until it was marked unhealthy, or has
\* run into its quota
RecoverInit ==
    /\ \E s1 \in [RemotesOf(1) -> {RemoteStatus, FailedStatus, ExceededStatus}],
          s2 \in [RemotesOf(2) -> {RemoteStatus, FailedStatus, ExceededStatus}] :
          status = [g \in Groups |-> IF g = 1 THEN s1 ELSE s2]
    /\ serve_running = [g \in Groups |-> RemotesOf(g)]
    /\ RouterBlank

\* get_next_remote(strategy, group): the available list, _auto_recover_remotes
\* and a second list only when the first is empty, RuntimeError when the
\* second is empty too, otherwise the selection by strategy
GetNextRemote(g) ==
    /\ lock = 0
    /\ LET first == AvailableList(status[g], g, now)
           checked == AfterAvailabilityCheck(status[g], now)
           recovered == auto_recover_remotes(checked, now)
           st == IF first = <<>> THEN AfterAvailabilityCheck(recovered, now)
                                 ELSE checked
           available == IF first = <<>> THEN AvailableList(recovered, g, now)
                                        ELSE first
       IN  /\ status' = [status EXCEPT ![g] = st]
           /\ IF available = <<>>
              THEN UNCHANGED rr_index
              ELSE \E strategy \in Strategies :
                      rr_index' =
                         IF strategy \in {"weighted", "random", "least_used"}
                         THEN rr_index
                         ELSE [rr_index EXCEPT ![g] = round_robin_next(@, available)]
    /\ UNCHANGED <<daemon_urls_cache, daemon_urls_time, serve_running, lock,
                   now, events, calls, th, remoteLog, readLog, snapshot>>
    /\ RouterFrame

RecoverNext ==
    \/ \E g \in Groups : GetNextRemote(g)
    \/ AdvanceClock

(***************************************************************************)
(* Specifications: one per part of the program, the other parts at rest.   *)
(***************************************************************************)
CodecSpecInit ==
    /\ CodecInit /\ RouterIdle /\ ProxyIdle /\ PolicyIdle /\ IngestIdle /\ EnvIdle
    /\ DaemonIdle /\ ResumeIdle /\ SignalIdle /\ PortIdle
    /\ SweepIdle

CodecSpec == CodecSpecInit /\ [][CodecNext]_vars

RouterSpecInit ==
    /\ RouterInit /\ CodecIdle /\ ProxyIdle /\ PolicyIdle /\ IngestIdle /\ EnvIdle
    /\ DaemonIdle /\ ResumeIdle /\ SignalIdle /\ PortIdle
    /\ SweepIdle

RouterSpec == RouterSpecInit /\ [][RouterNext]_vars

ProxySpecInit ==
    ProxyInit /\ CodecIdle /\ PolicyIdle /\ IngestIdle /\ EnvIdle /\ DaemonIdle /\ ResumeIdle /\ SignalIdle /\ PortIdle
    /\ SweepIdle

ProxySpec == ProxySpecInit /\ [][ProxyNext]_vars

PolicySpecInit ==
    /\ PolicyInit /\ CodecIdle /\ RouterRemotes /\ ProxyIdle /\ IngestIdle /\ EnvIdle
    /\ DaemonIdle /\ ResumeIdle /\ SignalIdle /\ PortIdle
    /\ SweepIdle

PolicySpec == PolicySpecInit /\ [][PolicyNext]_vars

IngestSpecInit ==
    /\ IngestInit /\ PolicyAutoSwitch /\ CodecIdle /\ RouterIdle /\ ProxyIdle
    /\ EnvIdle /\ DaemonIdle /\ ResumeIdle /\ SignalIdle /\ PortIdle
    /\ SweepIdle

IngestSpec == IngestSpecInit /\ [][IngestNext]_vars

EnvSpecInit ==
    /\ EnvInit /\ CodecIdle /\ RouterIdle /\ ProxyIdle /\ PolicyIdle /\ IngestIdle
    /\ DaemonIdle /\ ResumeIdle /\ SignalIdle /\ PortIdle
    /\ SweepIdle

EnvSpec == EnvSpecInit /\ [][EnvNext]_vars

DaemonSpecInit ==
    /\ DaemonInit /\ CodecIdle /\ RouterIdle /\ ProxyIdle /\ PolicyIdle
    /\ IngestIdle /\ EnvIdle /\ ResumeIdle /\ SignalIdle /\ PortIdle
    /\ SweepIdle

DaemonSpec == DaemonSpecInit /\ [][DaemonNext]_vars

\* every health-check thread that a daemon start can create
HealthThreads ==
    [remote : DaemonRemotes, started : 1..MaxProcesses, process : 0..MaxProcesses]

\* the health-check threads are scheduled for as long as they exist
DaemonLiveSpec ==
    /\ DaemonSpecInit
    /\ [][DaemonNext]_vars
    /\ \A t \in HealthThreads :
          WF_vars(HealthCheckReadEntry(t) \/ HealthCheckPoll(t))

SignalSpecInit ==
    /\ DaemonInit /\ SignalIdle /\ CodecIdle /\ RouterIdle /\ ProxyIdle
    /\ PolicyIdle /\ IngestIdle /\ EnvIdle /\ ResumeIdle /\ PortIdle /\ SweepIdle

\* the handler and the main thread run whenever they can
SignalSpec ==
    /\ SignalSpecInit
    /\ [][SignalNext]_vars
    /\ WF_vars(SignalHandler)
    /\ WF_vars(ServeLockLeave)

PortSpecInit ==
    /\ PortInit /\ CodecIdle /\ RouterIdle /\ ProxyIdle /\ PolicyIdle
    /\ IngestIdle /\ EnvIdle /\ DaemonIdle /\ ResumeIdle /\ SignalIdle
    /\ SweepIdle

SweepSpecInit ==
    /\ SweepInit /\ CodecIdle /\ RouterIdle /\ ProxyIdle /\ PolicyIdle
    /\ IngestIdle /\ EnvIdle /\ DaemonIdle /\ ResumeIdle /\ SignalIdle
    /\ PortIdle

SweepSpec == SweepSpecInit /\ [][SweepNext]_vars

PortSpec == PortSpecInit /\ [][PortNext]_vars

ResumeSpecInit ==
    /\ ResumeInit /\ PolicyIdle /\ CodecIdle /\ RouterIdle /\ ProxyIdle
    /\ EnvIdle /\ DaemonIdle /\ SignalIdle /\ PortIdle /\ SweepIdle

ResumeSpec == ResumeSpecInit /\ [][ResumeNext]_vars

RecoverSpecInit ==
    /\ RecoverInit /\ CodecIdle /\ ProxyIdle /\ PolicyIdle /\ IngestIdle
    /\ EnvIdle /\ DaemonIdle /\ ResumeIdle /\ SignalIdle /\ PortIdle
    /\ SweepIdle

\* get_next_remote is called for every group for as long as the service runs
RecoverSpec ==
    /\ RecoverSpecInit
    /\ [][RecoverNext]_vars
    /\ \A g \in Groups : WF_vars(GetNextRemote(g))

(***************************************************************************)
(* Properties of the codec (CodecSpec).                                    *)
(***************************************************************************)
\* the relative part of a stored path: it does not begin with @<digits>/ nor
\* with a slash, and holds neither ".." nor a backslash
IsRelativePath(r) ==
    /\ GroupPrefixEnd(r) = 0
    /\ ~StartsWith(r, <<"/">>)
    /\ ~Contains(r, <<".", ".">>)
    /\ ~Contains(r, <<"\\">>)

RoundTrips == decodedPath = inPath /\ decodedGroup = inGroup

StripsOnePrefix(p, out) ==
    IF GroupPrefixEnd(p) > 0
    THEN p = SubSeq(p, 1, GroupPrefixEnd(p)) \o out
    ELSE IF StartsWith(p, <<"@">>)
         THEN p = <<"@">> \o out
         ELSE out = p

\* C3: every path-strip used on a production path removes exactly one
\* leading group prefix as a string (one @N/ segment or one bare "@") and
\* leaves the remainder untouched.
C3_StripRemovesOnePrefix ==
    stage = "stripped" => StripsOnePrefix(inPath, stripped)

(***************************************************************************)
(* Properties of the router (RouterSpec).                                  *)
(***************************************************************************)
\* the request counters c add up and give a rate between 0 and 100
CountersConsistent(c, rate) ==
    /\ c.successful_requests + c.failed_requests = c.total_requests
    /\ rate >= 0
    /\ rate <= 100

\* C6: at every moment, between the steps of concurrent mark_success and
\* mark_failure calls too, every remote has successful + failed = total and
\* a success_rate within [0, 100], and so has every remote in the health
\* snapshot a concurrent reader took.
C6_HealthCountersConsistent ==
    \A g \in Groups : \A r \in RemotesOf(g) :
        /\ CountersConsistent(status[g][r], success_rate(status[g][r]))
        /\ snapshot.taken =>
              CountersConsistent(snapshot.remotes[g][r],
                                 snapshot.remotes[g][r].success_rate)

\* C7: a remote whose quota_exceeded flag is set and whose quota_reset_time
\* is still in the future is never returned by get_next_remote, under any
\* strategy and any interleaving of selections with failure reports.
C7_QuotaBlockedNeverReturned ==
    \A g \in Groups : \A i \in 1..Len(remoteLog[g]) :
        ~remoteLog[g][i].blocked

\* K consecutive results of get_next_remote in group g, from the i-th on,
\* all by round robin over the same K available remotes
RoundRobinWindow(g, i) ==
    LET log == remoteLog[g]
        K == Len(log[i].available)
    IN  /\ i + K - 1 <= Len(log)
        /\ \A j \in i..(i + K - 1) :
              /\ log[j].round_robin
              /\ log[j].available = log[i].available

\* C8: in a group with K available remotes whose availability does not
\* change, any K consecutive round_robin calls of get_next_remote return
\* each of the K remotes exactly once.
C8_RoundRobinFair ==
    \A g \in Groups : \A i \in 1..Len(remoteLog[g]) :
        RoundRobinWindow(g, i) =>
            \A j, k \in i..(i + Len(remoteLog[g][i].available) - 1) :
                j # k => remoteLog[g][j].remote # remoteLog[g][k].remote

\* C9: with two live daemons in a group, successive reads routed to that
\* group get alternating daemon URLs: each read gets the URL that follows
\* the one given to the read before it.
C9_DaemonReadsAlternate ==
    \A g \in Groups : \A i \in 1..(Len(readLog[g]) - 1) :
        (Len(readLog[g][i].urls) = 2 /\ readLog[g][i + 1].urls = readLog[g][i].urls)
            => readLog[g][i + 1].url # readLog[g][i].url

(***************************************************************************)
(* Properties of the image proxy (ProxySpec).                              *)
(***************************************************************************)
\* the request got past validate_file_path
Served == response.status_code \notin {0, 400}

\* C4: for every stored path, the group the read pipeline uses to pick the
\* daemon, to pick the fallback remotes and to report in X-Storage-Group is
\* group_of(path): N for a path starting with @N/ (N >= 3 too), 2 for a bare
\* "@" prefix, 1 otherwise.
C4_ReadGroupIsGroupOfPath ==
    Served =>
        LET N == get_group_for_path(gdrive_file_path)
        IN  /\ response.daemon_group = N
            /\ response.fallback_group \in {0, N}
            /\ response.storage_group \in {0, N}

\* C5: for a read of a stored path @N/rel the path requested upstream, from
\* the daemon or by cat on fallback, is exactly rel: /rel in the daemon URL.
C5_UpstreamPathIsRelativePart ==
    (Served /\ GroupPrefixEnd(gdrive_file_path) > 0) =>
        LET rel == DropFirst(gdrive_file_path, GroupPrefixEnd(gdrive_file_path))
        IN  response.upstream_path =
                IF response.mode = "daemon" THEN <<"/">> \o rel ELSE rel

(***************************************************************************)
(* Properties of the active upload group (PolicySpec).                     *)
(***************************************************************************)
\* get_active() of the service the switch was made through
ActiveGroupAfter(switch) ==
    IF switch.by = "multi_remote"
    THEN multi_remote_get_active_upload_group
    ELSE tracker_get_active_upload_group

\* C10: after a successful set_active(N), a restart of the process reads the
\* same N from the state file, and get_active() returns N.
C10_ActiveGroupSurvivesRestart ==
    (restarted /\ last_switch # NoSwitch) =>
        /\ read_active_group_file(state_file) = last_switch.group
        /\ ActiveGroupAfter(last_switch) = last_switch.group

(***************************************************************************)
(* Bulk ingest and the quota switch.                                       *)
(***************************************************************************)
\* C11: when a remote R of the active group N returns a quota-exceeded
\* error during an ingest, R is marked quota_exceeded and group N is marked
\* full.
C11_QuotaErrorMarksRemoteAndGroup ==
    \A r \in chapter_results :
        r.outcome = "quota" =>
            /\ status[r.remote_group][r.remote].quota_exceeded
            /\ group_state[r.storage_group].is_full

\* C12: after a quota failure in the active group N during an ingest job,
\* the chapter the job uploads next is written to another group than N (the
\* newly active one).
C12_NextChapterLeavesFullGroup ==
    \A r \in chapter_results : \A n \in chapter_results :
        (r.outcome = "quota" /\ n.upload_id = r.upload_id /\ n.seq = r.seq + 1)
            => n.storage_group # r.storage_group

\* a step in which the quota tracker learns that a group ran out of quota
QuotaEvent == HandleQuotaExceeded \/ RecordUploadSize

\* C13: after a quota-triggered advance of the active write group from 1 to
\* 2, the state file storage/active_group.txt contains 2.
C13_QuotaAdvanceWritesStateFile ==
    [][(/\ QuotaEvent
        /\ tracker_get_active_upload_group = 1
        /\ tracker_get_active_upload_group' = 2)
            => read_active_group_file(state_file') = 2]_vars

\* C14: every stored path that ingest writes to a catalog row for a chapter
\* uploaded to group N equals mark(rel, N): it begins with @N/ when N >= 2
\* and carries no prefix when N = 1.
C14_StoredPathIsMarkedPath ==
    \A row \in page_rows :
        row.gdrive_file_id = mark_as_group(row.gdrive_path_clean, row.storage_group)

\* the entry of one job from one state to the next, while it is in the store
SameJob(id) ==
    upload_progress_store[id].present /\ upload_progress_store'[id].present

\* C15: for each upload job, completed_chapters and uploaded_files never
\* decrease over the lifetime of the job, whatever operation of the progress
\* store runs.
C15_CountersNeverDecrease ==
    [][\A id \in JobIds :
          SameJob(id) =>
            /\ upload_progress_store'[id].completed_chapters
                  >= upload_progress_store[id].completed_chapters
            /\ upload_progress_store'[id].uploaded_files
                  >= upload_progress_store[id].uploaded_files]_vars

\* a job with two chapters of three files in all has completed both
C15_Witness ==
    \E id \in JobIds :
        /\ upload_progress_store[id].present
        /\ upload_progress_store[id].status = "completed"
        /\ upload_progress_store[id].completed_chapters = 2
        /\ upload_progress_store[id].uploaded_files = 3

ProgressInRange ==
    \A id \in JobIds :
        /\ upload_progress_store[id].progress >= 0
        /\ upload_progress_store[id].progress <= 100

\* C16: for each upload job, progress always lies in [0, 100] and never
\* decreases from one observation to the next.
C16_ProgressInRangeAndMonotone ==
    /\ []ProgressInRange
    /\ [][\A id \in JobIds :
             SameJob(id) =>
               upload_progress_store'[id].progress
                  >= upload_progress_store[id].progress]_vars

\* a job returned as completed with a failed chapter: update_progress was
\* called with progress 100 and the entry shows the share of the files
C16_Witness ==
    \E id \in JobIds :
        /\ upload_progress_store[id].present
        /\ upload_progress_store[id].status = "completed"
        /\ upload_progress_store[id].failed_chapters > 0
        /\ upload_progress_store[id].progress > 0
        /\ upload_progress_store[id].progress < 100

(***************************************************************************)
(* Subprocess environment.                                                 *)
(***************************************************************************)
\* C17: for every subprocess invocation of rclone, whatever the environment
\* of the parent, the environment of the child has no variable whose name
\* starts with RCLONE_.
C17_ChildEnvHasNoReservedVariable ==
    spawn_site # "none" =>
        \A key \in child_env : ~StartsWith(key, ReservedPrefix)


(***************************************************************************)
(* The read pipeline and its daemons.                                      *)
(***************************************************************************)
\* C18: if the daemon selected for a read answers 404, the client receives
\* a 404 response and no fallback download is attempted.
C18_Daemon404IsNotFound ==
    response.daemon_answer = "not_found" =>
        /\ response.status_code = 404
        /\ response.cat_answer = "none"

\* C19: if the daemon selected for a read fails with anything other than
\* 404 (another status, a connection or stream error), the read falls back
\* to a cat download from a remote of the same group, and with that
\* download working the client receives the file.
C19_DaemonFailureFallsBack ==
    response.daemon_answer \in {"bad_status", "stream_error", "connect_error"} =>
        /\ response.mode = "fallback"
        /\ response.fallback_group = response.daemon_group
        /\ response.cat_answer = "content" => response.body = "file"

\* C20: after the only daemon of a group is killed, the very next read for
\* that group falls back to cat, streams the bytes (the remote has the
\* file) and reports the fallback mode in the response header.
C20_KilledDaemonReadFallsBack ==
    (/\ Served
     /\ NumRemotes(response.daemon_group) = 1
     /\ response.running = {})
        => /\ response.mode = "fallback"
           /\ response.cat_answer = "content" => response.body = "file"

\* C21: when the fallback read finds no available remote in the group even
\* after one auto-recovery attempt, the read endpoint responds with HTTP 502.
C21_NoHealthyRemotesIs502 ==
    response.no_remote => response.status_code = 502

\* C22: a fallback read makes at most available_remotes(N) * max_retries
\* download attempts, with available_remotes(N) the number of available
\* remotes of the group of the path, and each attempt is counted by the
\* tracker of the remote it used.
C22_AttemptsBoundedByAvailableRemotes ==
    response.mode = "fallback" =>
        /\ response.attempts <= response.available_remotes * ProxyMaxRetries
        /\ RequestsCounted(status[response.fallback_group],
                           RemotesOf(response.fallback_group))
              = response.requests_at_start + response.attempts

\* C28: a read of a file that does not exist increases the error streak of
\* no remote and makes no healthy remote unhealthy.
C28_MissingFileKeepsRemoteHealth ==
    [][(response.mode = "fallback" /\ ~response.file_exists) =>
          \A g \in Groups : \A r \in RemotesOf(g) :
              /\ status'[g][r].error_count <= status[g][r].error_count
              /\ status[g][r].is_healthy => status'[g][r].is_healthy]_vars

\* C23: whenever an ingest job stops on a fatal error, the resume token
\* returned to the caller holds the chapters not yet processed and the
\* results completed so far.
C23_FatalErrorLeavesResumeToken ==
    (job.pc = "returned" /\ job.stopped_at > 0) =>
        /\ resume_token_store.present
        /\ resume_token_store.upload_id = job.upload_id
        /\ resume_token_store.chapters =
              SubSeq(job.chapters, job.stopped_at, Len(job.chapters))
        /\ resume_token_store.completed_results = job.stopped_at - 1

\* the position get_next_daemon_url hands out in group g
DaemonPosition(g) == rr_index[g] % Len(active_daemon_urls(g))

\* C24: under concurrent callers the round-robin cursor of a group hands
\* out each index at most once per cycle: while a caller has read the
\* cursor and not yet advanced it, no other caller is given the index of
\* the same cursor value.
C24_IndexHandedOutOnce ==
    [][\A t \in Threads :
          LET g == th[t].group
          IN  (/\ th[t].pc = "picked"
               /\ th'[t] = th[t]
               /\ rr_index'[g] # rr_index[g])
                 => ~(/\ rr_index[g] = th[t].cursor
                      /\ DaemonPosition(g) = th[t].cursor % Len(th[t].available))]_vars

\* the remote a round_robin call of get_next_remote in group g returns next
NextRemoteOf(g) ==
    LET available == AvailableList(status[g], g, now)
    IN  IF available = <<>> THEN None
        ELSE available[round_robin_pick(rr_index[g], available)]

\* the URL get_next_daemon_url returns next in group g
NextDaemonUrlOf(g) == next_daemon_url(active_daemon_urls(g), rr_index[g])

\* C25: each group has two separate cursors: a call of get_next_remote
\* does not change the URL get_next_daemon_url returns next, and a call of
\* get_next_daemon_url does not change the remote get_next_remote returns
\* next.
C25_SeparateCursors ==
    [][\A g \in Groups :
          /\ remoteLog'[g] # remoteLog[g] => NextDaemonUrlOf(g)' = NextDaemonUrlOf(g)
          /\ readLog'[g] # readLog[g] => NextRemoteOf(g)' = NextRemoteOf(g)]_vars

(***************************************************************************)
(* Properties of the serve daemons (DaemonSpec).                           *)
(***************************************************************************)
\* C26: at every moment at most one live daemon process exists per remote,
\* across any sequence of start, restart after death, cache-clear and
\* shutdown operations.
C26_AtMostOneLiveDaemonPerRemote ==
    \A r \in DaemonRemotes : Cardinality(LiveDaemons(r)) <= 1

\* C27: once shutdown has returned, no daemon child process is still alive.
C27_NoLiveDaemonAfterShutdown ==
    lifespan = "shutdown" => \A r \in DaemonRemotes : LiveDaemons(r) = {}

(***************************************************************************)
(* Properties of the views of the active upload group (PolicySpec).        *)
(***************************************************************************)
\* C29: after any sequence of set_active, manual group switch and
\* group-full events, the settings-level value, the module-level value,
\* the value of the router and get_active() of the quota tracker are the
\* same group.
C29_ActiveGroupViewsAgree ==
    /\ settings_get_active_upload_group = base_group
    /\ multi_remote_get_active_upload_group = base_group
    /\ tracker_get_active_upload_group = base_group

\* the groups of the tracker that are not full
OpenGroups == {g \in DOMAIN group_state : ~group_state[g].is_full}

\* C30: with auto-switch enabled, every caller that asks where to write,
\* through the quota tracker or through the router, is given the
\* lowest-numbered configured group that is not full (here after uploads
\* were recorded and groups were marked full, with no switch by hand).
C30_ActiveGroupIsLowestOpen ==
    (/\ auto_switch
     /\ OpenGroups # {}
     /\ last_switch = NoSwitch
     /\ base_group = 1 /\ mr_group = 1 /\ base_internal = 1 /\ state_file = <<>>) =>
        /\ tracker_get_active_upload_group \in OpenGroups
        /\ \A g \in OpenGroups : tracker_get_active_upload_group <= g
        /\ multi_remote_get_active_upload_group = tracker_get_active_upload_group

\* C31: a switch of the active upload group succeeds only if the target is
\* a configured group with at least one available remote (stated for the
\* groups whose remotes MultiRemoteService holds).
C31_SwitchNeedsAvailableRemote ==
    (last_switch # NoSwitch /\ last_switch.group \in Groups) =>
        /\ last_switch.group \in ConfiguredGroups
        /\ AvailableList(status[last_switch.group], last_switch.group, now) # <<>>

(***************************************************************************)
(* Properties of the recovery of remotes (RecoverSpec).                    *)
(***************************************************************************)
\* an unhealthy remote whose last error is older than the recovery threshold
Stale(g, r) ==
    /\ ~status[g][r].is_healthy
    /\ status[g][r].last_error_time # None
    /\ status[g][r].last_error_time < now - RecoveryThreshold

\* C32: every unhealthy remote whose last error is older than the recovery
\* threshold is eventually reset to healthy, whatever the state of the
\* other remotes of its group.
C32_StaleRemoteEventuallyHealthy ==
    \A g \in Groups : \A r \in RemotesOf(g) :
        Stale(g, r) ~> status[g][r].is_healthy

(***************************************************************************)
(* Properties of the readiness probe of a serve daemon (DaemonLiveSpec).   *)
(***************************************************************************)
\* the registered child of the remote r answers at its address while the
\* entry of r has no URL, so that reads of r use the cat fallback
ReadyUnpublished(r) ==
    /\ lifespan = "running"
    /\ serve_daemons[r].present
    /\ Ready(serve_daemons[r].process)
    /\ serve_daemons[r].url = 0

\* C33: a daemon that was not ready within startup_timeout is left alive,
\* and when it becomes ready later its readiness is eventually observed and
\* its URL published: a registered child that answers does not stay
\* without a URL for ever.
C33_LateReadinessIsPublished ==
    \A r \in DaemonRemotes : ReadyUnpublished(r) ~> ~ReadyUnpublished(r)

(***************************************************************************)
(* Properties of the job snapshots and the resume tokens (IngestSpec).     *)
(***************************************************************************)
\* GET /progress/{upload_id}: the entry of the store as it is, NoEntry for
\* the 404 answer
get_upload_progress(upload_id) == upload_progress_store[upload_id]

\* the event loop is free to take a request: no bulk_upload_chapters and no
\* resume_upload is between its first and its last statement
CanServeRequest == job.pc # "running"

\* the chapters of the job upload_id whose files were copied and counted and
\* whose rows were committed
FinishedChapters(upload_id) ==
    {r \in chapter_results : r.upload_id = upload_id /\ r.outcome = "success"}

\* C34: the progress update of a chapter is atomic: no reader of a job
\* snapshot finds the files of a finished chapter counted in uploaded_files
\* while the chapter is not counted in completed_chapters.
C34_ChapterUpdateIsAtomic ==
    (CanServeRequest /\ job.upload_id \in JobIds) =>
        LET entry == get_upload_progress(job.upload_id)
        IN  entry.present =>
               entry.completed_chapters >=
                  Cardinality(FinishedChapters(job.upload_id))

\* C35: every upload job reaches a terminal status: once the processing of
\* a job has ended, by its last chapter, by a chapter conflict or at the end
\* of a resume, its snapshot has the status completed or failed.
C35_EndedJobHasTerminalStatus ==
    (job.pc = "returned" /\ get_upload_progress(job.upload_id).present) =>
        get_upload_progress(job.upload_id).status \in {"completed", "failed"}

(***************************************************************************)
(* Properties of the resume requests (ResumeSpec).                         *)
(***************************************************************************)
\* the requests that carried the token value k and processed its chapters
Processed(k) ==
    {r \in Requests : resume_requests[r].token = k /\ resume_requests[r].pc = "done"}

\* C36: a resume token is consumed at most once: of the resume requests
\* that carry the same token, at most one processes the residual chapters.
C36_TokenConsumedAtMostOnce ==
    \A k \in TokenValues : Cardinality(Processed(k)) <= 1

\* two requests carried the token of the store: one processed its chapters,
\* the other was answered that the token is not valid
C36_Witness ==
    \E r, q \in Requests :
        /\ r # q
        /\ resume_requests[r].token = 1 /\ resume_requests[r].pc = "done"
        /\ resume_requests[r].token_data.chapters # <<>>
        /\ resume_requests[q].token = 1 /\ resume_requests[q].pc = "not_found"

(***************************************************************************)
(* Properties of the termination signals (SignalSpec).                     *)
(***************************************************************************)
\* C37: the shutdown that SIGTERM or SIGINT starts always completes: the
\* handler does not wait for ever for the lock of the daemon registry,
\* wherever the main thread was when the signal arrived.
C37_SignalShutdownCompletes ==
    signal_received ~> (lifespan = "shutdown")

(***************************************************************************)
(* Properties of the ports of the workers (PortSpec).                      *)
(***************************************************************************)
\* C38: two workers with different worker_index never give the same port to
\* a daemon, after any number of daemon starts and restarts.
C38_WorkerPortsDisjoint ==
    \A v, w \in Workers :
        v # w => allocated_ports[v] \cap allocated_ports[w] = {}

(***************************************************************************)
(* Properties of the expiry of the stores (SweepSpec).                     *)
(***************************************************************************)
\* C39: a job older than 24 h and a resume token older than 48 h is evicted
\* within the sweep period after it expires: no entry stays in its store
\* for more than an hour (a bound above the sweep period of a few minutes)
\* past its expiry.
C39_ExpiredEntriesAreEvicted ==
    /\ \A id \in JobIds :
          progress_started_at[id] # None =>
             wall_clock - progress_started_at[id] <= PROGRESS_EXPIRY_HOURS + 1
    /\ \A token \in TokenIds :
          token_created_at[token] # None =>
             wall_clock - token_created_at[token] <= TOKEN_EXPIRY_HOURS + 1

(***************************************************************************)
(* Order of the chapters of one job (IngestSpec).                          *)
(***************************************************************************)
\* C40: within one ingest job the chapters are uploaded in detection order
\* in every execution mode: of two uploads of the same job, the earlier one
\* is the upload of the chapter that was detected first.
C40_ChaptersInDetectionOrder ==
    \A r, n \in chapter_results :
        (r.upload_id = n.upload_id /\ r.seq < n.seq) =>
            r.chapter_main < n.chapter_main

=============================================================================
